---- MODULE Spec2Model ----
(***************************************************************************)
(* Maker-checker approval workflow and tool-calling orchestration loop of  *)
(* the AG-UI server (bin/agui_server.py) with the intent policy            *)
(* (core/intent_policy.py).                                                *)
(*                                                                         *)
(* Modelling conventions                                                   *)
(*  - A timestamp field (approved_at, rejected_at, executed_at,            *)
(*    updated_at) holds 0 for None and otherwise the ordinal of the write  *)
(*    that set it: the k-th write of the field stores k.                   *)
(*  - request ids (uuid4) are fresh; the id of a request is its position   *)
(*    in the store (a dict keeps insertion order).                         *)
(*  - Strings the code inspects by character (tool names, messages) are    *)
(*    mapped to character sequences by Chars.                              *)
(*  - The Tool Executor, the LLM and Terraform are external; their         *)
(*    outcomes are nondeterministic inputs of the actions.                 *)
(*  - Handlers are atomic except execute_maker_checker_request, which is   *)
(*    cut where it releases maker_checker_lock around the tool execution.  *)
(***************************************************************************)
EXTENDS Integers, Sequences, FiniteSets, TLC

\* ---------------------------------------------------------------- bounds
MaxRequests == 1
MaxComments == 2
MaxRuns == 1
MaxToolTurns == 1
MaxCallsPerTurn == 1
MaxExecs == 1
MaxLoopExecs == 3

\* ------------------------------------------------------- program constants
max_iterations == 5

Profiles == {"default", "dev", "audit"}
Clients == {"c1", "c2"}
Threads == {"t1"}
Projects == {"p1", "p2"}
Runs == 1..MaxRuns
Backends == {"aws_terraform", "azure_terraform", "none"}
RunBackends == {"aws_terraform", "azure_terraform"}
AZURE_MCP_AVAILABLE == TRUE

ToolNames ==
    {"create_s3_bucket", "terraform_plan", "terraform_apply",
     "terraform_destroy", "list_aws_resources", "deploy_architecture"}

Messages == {"list vpc", "create vpc"}

Chars(s) ==
    CASE s = "create_s3_bucket" -> <<"c","r","e","a","t","e","_","s","3","_","b","u","c","k","e","t">>
      [] s = "terraform_plan" -> <<"t","e","r","r","a","f","o","r","m","_","p","l","a","n">>
      [] s = "terraform_apply" -> <<"t","e","r","r","a","f","o","r","m","_","a","p","p","l","y">>
      [] s = "terraform_destroy" -> <<"t","e","r","r","a","f","o","r","m","_","d","e","s","t","r","o","y">>
      [] s = "list_aws_resources" -> <<"l","i","s","t","_","a","w","s","_","r","e","s","o","u","r","c","e","s">>
      [] s = "deploy_architecture" -> <<"d","e","p","l","o","y","_","a","r","c","h","i","t","e","c","t","u","r","e">>
      [] s = "create_" -> <<"c","r","e","a","t","e","_">>
      [] s = "list vpc" -> <<"l","i","s","t"," ","v","p","c">>
      [] s = "create vpc" -> <<"c","r","e","a","t","e"," ","v","p","c">>
      [] s = "recreate_stack" -> <<"r","e","c","r","e","a","t","e","_","s","t","a","c","k">>
      [] s = "Summarize resources" -> <<"S","u","m","m","a","r","i","z","e"," ","r","e","s","o","u","r","c","e","s">>
      [] s = "List EC2" -> <<"L","i","s","t"," ","E","C","2">>
      [] s = "Create a VPC" -> <<"C","r","e","a","t","e"," ","a"," ","V","P","C">>
      [] s = "hello there" -> <<"h","e","l","l","o"," ","t","h","e","r","e">>
      [] s = "list then delete" -> <<"l","i","s","t"," ","t","h","e","n"," ","d","e","l","e","t","e">>
      [] s = "my playlist" -> <<"m","y"," ","p","l","a","y","l","i","s","t">>
      [] s = "SPIN UP and show" -> <<"S","P","I","N"," ","U","P"," ","a","n","d"," ","s","h","o","w">>
      [] s = "what  resources" -> <<"w","h","a","t"," "," ","r","e","s","o","u","r","c","e","s">>
      [] s = "WHAT RESOURCES" -> <<"W","H","A","T"," ","R","E","S","O","U","R","C","E","S">>
      [] s = "deployed inventory" -> <<"d","e","p","l","o","y","e","d"," ","i","n","v","e","n","t","o","r","y">>
      [] s = "ok" -> <<"o","k">>
      [] s = " " -> <<" ">>
      [] s = " ok " -> <<" ","o","k"," ">>
      [] s = "review_ecs_deployment_workflow" -> <<"r","e","v","i","e","w","_","e","c","s","_","d","e","p","l","o","y","m","e","n","t","_","w","o","r","k","f","l","o","w">>
      [] s = "start_ecs_deployment_workflow" -> <<"s","t","a","r","t","_","e","c","s","_","d","e","p","l","o","y","m","e","n","t","_","w","o","r","k","f","l","o","w">>
      [] s = "update_ecs_deployment_workflow" -> <<"u","p","d","a","t","e","_","e","c","s","_","d","e","p","l","o","y","m","e","n","t","_","w","o","r","k","f","l","o","w">>
      [] s = "create_ecs_service" -> <<"c","r","e","a","t","e","_","e","c","s","_","s","e","r","v","i","c","e">>
      [] s = "create_ec2_instance" -> <<"c","r","e","a","t","e","_","e","c","2","_","i","n","s","t","a","n","c","e">>
      [] s = "Tool calling is not supported for this model" -> <<"T","o","o","l"," ","c","a","l","l","i","n","g"," ","i","s"," ","n","o","t"," ","s","u","p","p","o","r","t","e","d"," ","f","o","r"," ","t","h","i","s"," ","m","o","d","e","l">>
      [] s = "Error code: 400 - Tool calling is not supported for this model." -> <<"E","r","r","o","r"," ","c","o","d","e",":"," ","4","0","0"," ","-"," ","T","o","o","l"," ","c","a","l","l","i","n","g"," ","i","s"," ","n","o","t"," ","s","u","p","p","o","r","t","e","d"," ","f","o","r"," ","t","h","i","s"," ","m","o","d","e","l",".">>
      [] s = "tool calling is not supported for this model" -> <<"t","o","o","l"," ","c","a","l","l","i","n","g"," ","i","s"," ","n","o","t"," ","s","u","p","p","o","r","t","e","d"," ","f","o","r"," ","t","h","i","s"," ","m","o","d","e","l">>
      [] s = "Rate limit exceeded" -> <<"R","a","t","e"," ","l","i","m","i","t"," ","e","x","c","e","e","d","e","d">>
      [] s = "us-east-1" -> <<"u","s","-","e","a","s","t","-","1">>
      [] s = "ap-south-1" -> <<"a","p","-","s","o","u","t","h","-","1">>
      [] s = "agent-cluster" -> <<"a","g","e","n","t","-","c","l","u","s","t","e","r">>
      [] s = "agent-service" -> <<"a","g","e","n","t","-","s","e","r","v","i","c","e">>
      [] s = "nginx:latest" -> <<"n","g","i","n","x",":","l","a","t","e","s","t">>
      [] s = "arn:exec" -> <<"a","r","n",":","e","x","e","c">>
      [] s = "arn:task" -> <<"a","r","n",":","t","a","s","k">>
      [] OTHER -> <<>>

\* ------------------------------------------------------------ intent policy
READONLY_KEYWORDS ==
    << <<"l","i","s","t">>,
       <<"l","i","s","t","i","n","g">>,
       <<"s","u","m","m","a","r","i","z","e">>,
       <<"s","u","m","m","a","r","y">>,
       <<"s","h","o","w">>,
       <<"i","n","v","e","n","t","o","r","y">>,
       <<"d","e","s","c","r","i","b","e">>,
       <<"w","h","a","t"," ","r","e","s","o","u","r","c","e","s">>,
       <<"c","o","s","t">>,
       <<"b","i","l","l","i","n","g">>,
       <<"s","p","e","n","d">> >>

MUTATING_KEYWORDS ==
    << <<"c","r","e","a","t","e">>,
       <<"p","r","o","v","i","s","i","o","n">>,
       <<"d","e","p","l","o","y">>,
       <<"b","u","i","l","d">>,
       <<"l","a","u","n","c","h">>,
       <<"s","p","i","n"," ","u","p">>,
       <<"a","p","p","l","y">>,
       <<"d","e","s","t","r","o","y">>,
       <<"d","e","l","e","t","e">>,
       <<"r","e","m","o","v","e">>,
       <<"t","e","r","m","i","n","a","t","e">> >>

MUTATING_TOOLS == {"terraform_plan", "terraform_apply", "terraform_destroy"}

\* str.startswith
StartsWith(s, p) == Len(s) >= Len(p) /\ SubSeq(s, 1, Len(p)) = p

\* the Python operator `k in s` on strings
Contains(s, k) ==
    \E i \in 1..(Len(s) - Len(k) + 1) : SubSeq(s, i, i + Len(k) - 1) = k

LowerChar(c) ==
    CASE c = "A" -> "a" [] c = "B" -> "b" [] c = "C" -> "c" [] c = "D" -> "d"
      [] c = "E" -> "e" [] c = "F" -> "f" [] c = "G" -> "g" [] c = "H" -> "h"
      [] c = "I" -> "i" [] c = "J" -> "j" [] c = "K" -> "k" [] c = "L" -> "l"
      [] c = "M" -> "m" [] c = "N" -> "n" [] c = "O" -> "o" [] c = "P" -> "p"
      [] c = "Q" -> "q" [] c = "R" -> "r" [] c = "S" -> "s" [] c = "T" -> "t"
      [] c = "U" -> "u" [] c = "V" -> "v" [] c = "W" -> "w" [] c = "X" -> "x"
      [] c = "Y" -> "y" [] c = "Z" -> "z" [] OTHER -> c

Lower(s) == [i \in 1..Len(s) |-> LowerChar(s[i])]

\* fault variant: the message is not lower-cased
detect_case_sensitive(message) ==
    LET has_readonly == \E i \in 1..Len(READONLY_KEYWORDS) :
                            Contains(message, READONLY_KEYWORDS[i])
        has_mutating == \E i \in 1..Len(MUTATING_KEYWORDS) :
                            Contains(message, MUTATING_KEYWORDS[i])
    IN  has_readonly /\ ~has_mutating

detect_read_only_intent(message) ==
    LET lower_msg == Lower(message)
        has_readonly == \E i \in 1..Len(READONLY_KEYWORDS) :
                            Contains(lower_msg, READONLY_KEYWORDS[i])
        has_mutating == \E i \in 1..Len(MUTATING_KEYWORDS) :
                            Contains(lower_msg, MUTATING_KEYWORDS[i])
    IN  has_readonly /\ ~has_mutating

\* fault variant: the create_ prefix is forgotten
is_terraform_tool(tool_name) == tool_name \in MUTATING_TOOLS

\* fault variant: the prefix test written as a substring test
is_mutating_by_substring(tool_name) ==
    Contains(Chars(tool_name), Chars("create_")) \/ tool_name \in MUTATING_TOOLS

is_mutating_tool(tool_name) ==
    StartsWith(Chars(tool_name), Chars("create_")) \/ tool_name \in MUTATING_TOOLS

\* ------------------------------------------------------------------ state
VARIABLES
    AWS_PROFILE,             \* os.environ["AWS_PROFILE"], the process-wide profile
    client_active_profiles,  \* client key -> profile ("" when the key is absent)
    checker_env,             \* MAKER_CHECKER_CHECKER_PROFILES / _PROFILE, split on ","
    role_file,               \* logs/maker_checker_roles.json
    maker_checker_roles,     \* the in-memory role configuration
    AWS_MCP_AVAILABLE,       \* whether the aws_terraform MCP server was imported
    maker_checker_requests,  \* the Maker-Checker Store
    executing,               \* client -> its execute call in flight
    last_response,           \* the JSON response of the last maker-checker call
    run,                     \* run id -> the run's locals in run_agent.stream
    conversation_store,      \* thread id -> history
    tool_log,                \* the calls the Tool Executor received, in order
    tfplan,                  \* projects whose workspace holds a tfplan file
    workspace,               \* the project directories of terraform.workspace_dir
    ecs_workflows,           \* MCPAWSManagerServer.ecs_workflows, in order of creation
    tool_result,             \* what the last call of a handler of the executor returned
    workflow_log,            \* the records of workflow_execution_log_agui.jsonl
    aws_login_jobs,          \* the login jobs in order of creation; login_id is the place
    aws_login_latest_id      \* the id of the job started last, 0 for None

vars ==
    <<AWS_PROFILE, client_active_profiles, checker_env, role_file,
      maker_checker_roles, AWS_MCP_AVAILABLE, maker_checker_requests, executing,
      last_response, run, conversation_store, tool_log, tfplan,
      workspace, ecs_workflows, tool_result, workflow_log,
      aws_login_jobs, aws_login_latest_id>>

profile_vars == <<AWS_PROFILE, client_active_profiles>>
role_vars == <<checker_env, role_file, maker_checker_roles, AWS_MCP_AVAILABLE>>
loop_vars == <<run, conversation_store>>
\* the working state of the executor's handlers and the audit's input: the
\* actions of the agent see the executor through the outcome of a call and the
\* plan artifacts, and leave these as they are
mcp_vars == <<workspace, ecs_workflows, tool_result, workflow_log>>
login_vars == <<aws_login_jobs, aws_login_latest_id>>

Last(s) == s[Len(s)]
SeqToSet(s) == {s[i] : i \in 1..Len(s)}

\* ------------------------------------------------------ role configuration
RECURSIVE _normalize_from(_, _, _)
_normalize_from(values, i, normalized) ==
    IF i > Len(values) THEN normalized
    ELSE IF values[i] = "" \/ values[i] \in SeqToSet(normalized)
         THEN _normalize_from(values, i + 1, normalized)
         ELSE _normalize_from(values, i + 1, Append(normalized, values[i]))

_normalize_profiles(values) == _normalize_from(values, 1, <<>>)

\* the raw value is modelled already split on "," and stripped
_parse_profile_list(raw) == SelectSeq(raw, LAMBDA v : v # "")

_default_checker_profiles ==
    LET env_many == _parse_profile_list(checker_env.many)
        env_one == _parse_profile_list(checker_env.one)
        combined == _normalize_profiles(env_many \o env_one)
    IN  IF combined # <<>> THEN combined ELSE <<AWS_PROFILE>>

_checker_profiles ==
    LET values == _normalize_profiles(maker_checker_roles.checker_profiles)
    IN  IF values # <<>> THEN values ELSE _default_checker_profiles

_maker_profiles == _normalize_profiles(maker_checker_roles.maker_profiles)

_primary_checker_profile ==
    IF _checker_profiles # <<>> THEN _checker_profiles[1] ELSE ""

_is_checker_profile(profile) == profile \in SeqToSet(_checker_profiles)

_is_maker_profile(profile) ==
    IF profile = "" THEN FALSE
    ELSE IF _maker_profiles # <<>> THEN profile \in SeqToSet(_maker_profiles)
    ELSE ~_is_checker_profile(profile)

\* ------------------------------------------------ credential/profile context
_current_profile(client) ==
    IF client # "" /\ client_active_profiles[client] # ""
    THEN client_active_profiles[client]
    ELSE AWS_PROFILE

get_mcp_server(server_name) ==
    IF server_name = "aws_terraform" THEN AWS_MCP_AVAILABLE
    ELSE IF server_name = "azure_terraform" THEN AZURE_MCP_AVAILABLE
    ELSE FALSE

\* ------------------------------------------------------------ tool executor
NoArgs == [project_name |-> ""]

\* the tools of the guided ECS deployment whose result lists missing_fields
EcsWorkflowTools ==
    {"start_ecs_deployment_workflow", "update_ecs_deployment_workflow",
     "review_ecs_deployment_workflow", "create_ecs_service"}

\* the results with a non-empty missing_fields: one field, two fields
MissingOutcomes == {"missing", "missing two"}

\* the keys of a result that build_followup_message reads, with success;
\* create_ecs_service reports missing fields with success False, the
\* workflow tools with success True; no handler gives questions
ExecutedResult(tool_name, outcome) ==
    [success |-> IF outcome \in MissingOutcomes THEN tool_name # "create_ecs_service"
                 ELSE outcome = "ok",
     missing_fields |-> CASE outcome = "missing" -> <<"cluster_name">>
                          [] outcome = "missing two" -> <<"cluster_name", "subnet_ids">>
                          [] OTHER -> <<>>,
     questions |-> <<>>]

\* f"Please provide value for '{field}'."
GeneratedQuestion(field) ==
    CASE field = "cluster_name" -> "Please provide value for 'cluster_name'."
      [] field = "subnet_ids" -> "Please provide value for 'subnet_ids'."

\* the header, f"{idx}. {question}" for each question, and the footer, joined
\* by newlines
NumberedLines(questions) ==
    CASE questions = <<"Please provide value for 'cluster_name'.">> ->
             "I need a few details to continue:\n1. Please provide value for 'cluster_name'.\nReply with the values, and I will continue."
      [] questions = <<"Please provide value for 'cluster_name'.",
                       "Please provide value for 'subnet_ids'.">> ->
             "I need a few details to continue:\n1. Please provide value for 'cluster_name'.\n2. Please provide value for 'subnet_ids'.\nReply with the values, and I will continue."
      [] questions = <<"Which cluster?">> ->
             "I need a few details to continue:\n1. Which cluster?\nReply with the values, and I will continue."

\* build_followup_message of core/agent_protocol.py
build_followup_message(tool_name, result) ==
    IF result.missing_fields = <<>> THEN ""
    ELSE LET questions ==
                 IF result.questions = <<>>
                 THEN [i \in DOMAIN result.missing_fields |->
                          GeneratedQuestion(result.missing_fields[i])]
                 ELSE result.questions
         IN  NumberedLines(questions)

\* What the handler behind execute_tool can return for a call: "ok" is
\* success=True, "fail" is success=False, "raise" is an exception.
ExecutorOutcomes(tool_name, tool_args) ==
    IF tool_name \in EcsWorkflowTools
    THEN {"ok", "fail", "raise"} \cup MissingOutcomes
    ELSE IF tool_name \in MUTATING_TOOLS /\ tool_args.project_name = ""
    THEN {"fail"}
    ELSE IF tool_name = "terraform_apply" /\ tool_args.project_name \notin tfplan
    THEN {"fail"}
    ELSE {"ok", "fail", "raise"}

\* The plan artifacts after the call: plan writes tfplan, destroy unlinks it.
TfplanAfter(tool_name, tool_args, outcome) ==
    IF tool_name = "terraform_plan" /\ outcome = "ok"
    THEN tfplan \cup {tool_args.project_name}
    ELSE IF tool_name = "terraform_destroy" /\ tool_args.project_name # ""
    THEN tfplan \ {tool_args.project_name}
    ELSE tfplan

\* the dict execute returns or the except clause builds: a handler that fails
\* may give no error text, an exception gives str(e)
ToolResult(outcome) ==
    [success |-> (outcome = "ok"),
     error |-> IF outcome = "raise" THEN "exception" ELSE ""]

\* fault variant: the error field is stored as it comes
error_field_only(result) == result.error

\* result.get("error") or "Execution failed."
execution_error_of(result) ==
    IF result.error # "" THEN result.error ELSE "Execution failed."

\* actor: the profile the calling handler acts for; aws_profile: the
\* process-wide profile in effect while the tool runs
Invocation(via, actor, aws_profile, mcp_server, tool_name, tool_args, request_id, run_id, call_id) ==
    [via |-> via, actor |-> actor, aws_profile |-> aws_profile,
     mcp_server |-> mcp_server,
     tool_name |-> tool_name, tool_args |-> tool_args, request_id |-> request_id,
     run_id |-> run_id, call_id |-> call_id]

\* ---------------------------------------------------------- maker-checker
_maker_checker_should_gate(tool_name, mcp_server, active_profile) ==
    IF mcp_server # "aws_terraform" THEN FALSE
    ELSE IF ~is_mutating_tool(tool_name) THEN FALSE
    ELSE LET effective_profile ==
                 IF active_profile # "" THEN active_profile ELSE _current_profile("")
         IN  IF _checker_profiles = <<>> THEN FALSE
             ELSE ~_is_checker_profile(effective_profile)

\* render: what `terraform show tfplan` did ("rendered", "stderr", "silent")
_build_maker_checker_plan_preview(item, render) ==
    IF item.tool_name \in {"terraform_apply", "terraform_destroy"}
    THEN IF item.tool_args.project_name # "" /\ AWS_MCP_AVAILABLE
         THEN IF item.tool_args.project_name \in tfplan
              THEN CASE render = "rendered" -> "tfplan"
                     [] render = "stderr" -> "unable to render"
                     [] OTHER -> "no tfplan file"
              ELSE "no tfplan file"
         ELSE "no project_name"
    ELSE IF StartsWith(Chars(item.tool_name), Chars("create_"))
    THEN "planned tool request"
    ELSE "planned request preview"

Comment(author_profile, author_role, message) ==
    [author_profile |-> author_profile, author_role |-> author_role, message |-> message]

_create_maker_checker_request(run_id, thread_id, tool_name, tool_args, mcp_server, requester_message, requester_profile, render) ==
    LET effective_requester ==
            IF requester_profile # "" THEN requester_profile ELSE _current_profile("")
        comments ==
            IF requester_message # ""
            THEN <<Comment(effective_requester, "maker", requester_message)>>
            ELSE <<>>
        item ==
            [request_id |-> Len(maker_checker_requests) + 1,
             updated_at |-> 1,
             run_id |-> run_id,
             thread_id |-> thread_id,
             requester_profile |-> effective_requester,
             checker_profiles |-> _checker_profiles,
             checker_profile |-> _primary_checker_profile,
             tool_name |-> tool_name,
             tool_args |-> tool_args,
             mcp_server |-> mcp_server,
             status |-> "pending",
             approval_notes |-> "",
             approved_at |-> 0,
             rejected_at |-> 0,
             executed_at |-> 0,
             plan_preview |-> "",
             execution_result |-> "",
             execution_error |-> "",
             comments |-> comments]
    IN  [item EXCEPT !.plan_preview = _build_maker_checker_plan_preview(item, render)]

RequestIds == 1..MaxRequests
Notes == {"", "ok"}
Found(request_id) == request_id \in 1..Len(maker_checker_requests)
Response(op, error) == [op |-> op, error |-> error]
Idle == [pc |-> "idle", request_id |-> 0, previous_profile |-> "", result |-> ""]

\* fault variant: the author of a comment is written over the requester
WithCommentAsRequester(item, note, author_profile, author_role) ==
    IF note # ""
    THEN [item EXCEPT !.comments = Append(@, Comment(author_profile, author_role, note)),
                      !.requester_profile = author_profile]
    ELSE item

\* fault variant: the comment is put in front of the thread
WithCommentInFront(item, note, author_profile, author_role) ==
    IF note # ""
    THEN [item EXCEPT !.comments = <<Comment(author_profile, author_role, note)>> \o @]
    ELSE item

WithComment(item, note, author_profile, author_role) ==
    IF note # ""
    THEN [item EXCEPT !.comments = Append(@, Comment(author_profile, author_role, note))]
    ELSE item

RoomFor(request_id, note) ==
    note # "" /\ Found(request_id)
        => Len(maker_checker_requests[request_id].comments) < MaxComments

Respond(op, error) ==
    /\ last_response' = Response(op, error)
    /\ UNCHANGED maker_checker_requests

\* fault variants of the status checks: no check at all, a check that lets a
\* rejected request through, one that lets an approved request through
any_status(item) == TRUE

is_pending_or_rejected(item) == item.status \in {"pending", "rejected"}

is_pending_or_approved(item) == item.status \in {"pending", "approved"}

\* fault variants: execute accepts a pending request; execute accepts a
\* request that is already executing
is_approved_or_pending(item) == item.status \in {"approved", "pending"}

is_approved_or_executing(item) == item.status \in {"approved", "executing"}

\* the status checks of the decision handlers, made under maker_checker_lock
is_pending(item) == item.status = "pending"

\* fault variant: an executed request can be executed again
is_approved_or_executed(item) == item.status \in {"approved", "executed"}

is_approved(item) == item.status = "approved"

\* the text of a character sequence a comment can hold
Text(chars) ==
    CASE chars = <<>> -> ""
      [] chars = <<"o","k">> -> "ok"
      [] OTHER -> "other"

\* str.strip on the characters of a string
RECURSIVE lstrip(_)
lstrip(s) == IF s # <<>> /\ Head(s) = " " THEN lstrip(Tail(s)) ELSE s

RECURSIVE rstrip(_)
rstrip(s) == IF s # <<>> /\ s[Len(s)] = " " THEN rstrip(SubSeq(s, 1, Len(s) - 1)) ELSE s

strip(s) == Text(rstrip(lstrip(Chars(s))))

\* what a client may send as the message of a comment
CommentMessages == {"", " ", "ok", " ok "}

\* POST /api/maker-checker/comment
maker_checker_add_comment(client, request_id, payload_message) ==
    LET message == strip(payload_message)
    IN  /\ RoomFor(request_id, message)
        /\ IF message = ""
           THEN Respond("comment", "message is required")
           ELSE IF ~Found(request_id)
           THEN Respond("comment", "not found")
           ELSE LET item == maker_checker_requests[request_id]
                    role == IF _is_checker_profile(_current_profile(client))
                            THEN "checker" ELSE "maker"
                IN  /\ maker_checker_requests' =
                           [maker_checker_requests EXCEPT ![request_id] =
                               [WithComment(item, message, _current_profile(client), role)
                                   EXCEPT !.updated_at = @ + 1]]
                    /\ last_response' = Response("comment", "")
        /\ UNCHANGED <<profile_vars, role_vars, mcp_vars, login_vars, executing, loop_vars, tool_log, tfplan>>

\* POST /api/maker-checker/approve
approve_maker_checker_request(client, request_id, notes) ==
    /\ RoomFor(request_id, notes)
    /\ LET current == _current_profile(client)
       IN  IF ~_is_checker_profile(current)
           THEN Respond("approve", "requires checker profile")
           ELSE IF ~Found(request_id)
           THEN Respond("approve", "not found")
           ELSE IF ~is_pending(maker_checker_requests[request_id])
           THEN Respond("approve", "not pending")
           ELSE LET item == maker_checker_requests[request_id]
                    decided == [item EXCEPT !.status = "approved",
                                            !.approval_notes = notes,
                                            !.approved_at = @ + 1,
                                            !.updated_at = @ + 1]
                IN  /\ maker_checker_requests' =
                           [maker_checker_requests EXCEPT ![request_id] =
                               WithComment(decided, notes, _current_profile(client), "checker")]
                    /\ last_response' = Response("approve", "")
    /\ UNCHANGED <<profile_vars, role_vars, mcp_vars, login_vars, executing, loop_vars, tool_log, tfplan>>

\* POST /api/maker-checker/reject
reject_maker_checker_request(client, request_id, notes) ==
    /\ RoomFor(request_id, notes)
    /\ LET current == _current_profile(client)
       IN  IF ~_is_checker_profile(current)
           THEN Respond("reject", "requires checker profile")
           ELSE IF ~Found(request_id)
           THEN Respond("reject", "not found")
           ELSE IF ~is_pending(maker_checker_requests[request_id])
           THEN Respond("reject", "not pending")
           ELSE LET item == maker_checker_requests[request_id]
                    decided == [item EXCEPT !.status = "rejected",
                                            !.approval_notes = notes,
                                            !.rejected_at = @ + 1,
                                            !.updated_at = @ + 1]
                IN  /\ maker_checker_requests' =
                           [maker_checker_requests EXCEPT ![request_id] =
                               WithComment(decided, notes, _current_profile(client), "checker")]
                    /\ last_response' = Response("reject", "")
    /\ UNCHANGED <<profile_vars, role_vars, mcp_vars, login_vars, executing, loop_vars, tool_log, tfplan>>

\* POST /api/maker-checker/execute: the first locked section
execute_maker_checker_request(client, request_id, notes) ==
    /\ executing[client].pc = "idle"
    /\ RoomFor(request_id, notes)
    /\ IF ~Found(request_id)
       THEN /\ Respond("execute", "not found")
            /\ UNCHANGED executing
       ELSE IF ~is_approved(maker_checker_requests[request_id])
       THEN /\ Respond("execute", "not approved yet")
            /\ UNCHANGED executing
       ELSE LET item == maker_checker_requests[request_id]
                role == IF _is_checker_profile(_current_profile(client))
                        THEN "checker" ELSE "maker"
            IN  /\ maker_checker_requests' =
                       [maker_checker_requests EXCEPT ![request_id] =
                           WithComment([item EXCEPT !.status = "executing",
                                                    !.updated_at = @ + 1],
                                       notes, _current_profile(client), role)]
                /\ executing' =
                       [executing EXCEPT ![client] =
                           [Idle EXCEPT !.pc = "begun", !.request_id = request_id]]
                /\ UNCHANGED last_response
    /\ UNCHANGED <<profile_vars, role_vars, mcp_vars, login_vars, loop_vars, tool_log, tfplan>>

\* execute_maker_checker_request after the first locked section: the server
\* lookup, then either the failure response or the activation of the checker
\* profile and the call of execute_tool
execute_tool_invoked(client) ==
    /\ executing[client].pc = "begun"
    /\ LET request_id == executing[client].request_id
           item == maker_checker_requests[request_id]
       IN  IF ~get_mcp_server(item.mcp_server)
           THEN /\ maker_checker_requests' =
                       [maker_checker_requests EXCEPT ![request_id] =
                           [item EXCEPT !.status = "failed",
                                        !.execution_error = "MCP server not available",
                                        !.updated_at = @ + 1]]
                /\ last_response' =
                       Response("execute", "MCP server not available")
                /\ executing' = [executing EXCEPT ![client] = Idle]
                /\ UNCHANGED <<AWS_PROFILE, tool_log>>
           ELSE LET previous_profile == _current_profile(client)
                    checker_target == _primary_checker_profile
                    activated == IF checker_target # "" THEN checker_target ELSE AWS_PROFILE
                IN  /\ AWS_PROFILE' = activated
                    /\ executing' =
                           [executing EXCEPT ![client].pc = "running",
                                             ![client].previous_profile = previous_profile]
                    /\ tool_log' =
                           Append(tool_log,
                                  Invocation("maker_checker", previous_profile,
                                             activated, item.mcp_server, item.tool_name,
                                             item.tool_args, request_id, item.run_id, 0))
                    /\ UNCHANGED <<maker_checker_requests, last_response>>
    /\ UNCHANGED <<client_active_profiles, role_vars, mcp_vars, login_vars, loop_vars, tfplan>>

\* execute_tool returns (or raises) and the finally block restores the profile
execute_tool_returns(client, outcome) ==
    /\ executing[client].pc = "running"
    /\ LET item == maker_checker_requests[executing[client].request_id]
       IN  /\ outcome \in ExecutorOutcomes(item.tool_name, item.tool_args)
           /\ tfplan' = TfplanAfter(item.tool_name, item.tool_args, outcome)
    /\ AWS_PROFILE' = executing[client].previous_profile
    /\ executing' = [executing EXCEPT ![client].pc = "returned", ![client].result = outcome]
    /\ UNCHANGED <<client_active_profiles, role_vars, mcp_vars, login_vars, maker_checker_requests,
                   last_response, loop_vars, tool_log>>

\* fault variant: the result of a raised call is stored without a status
status_unless_raised(result) ==
    IF result.success THEN "executed"
    ELSE IF result.error = "exception" THEN "executing"
    ELSE "failed"

\* "executed" if result.get("success", False) else "failed"
status_of_result(result) == IF result.success THEN "executed" ELSE "failed"

\* the second locked section of execute_maker_checker_request
execute_maker_checker_finish(client) ==
    /\ executing[client].pc = "returned"
    /\ LET request_id == executing[client].request_id
           result == ToolResult(executing[client].result)
       IN  /\ maker_checker_requests' =
                  [maker_checker_requests EXCEPT ![request_id] =
                      [@ EXCEPT !.execution_result = executing[client].result,
                                !.executed_at = @ + 1,
                                !.updated_at = @ + 1,
                                !.status = status_of_result(result),
                                !.execution_error =
                                    IF ~result.success THEN execution_error_of(result)
                                    ELSE @]]
           /\ last_response' = Response("execute", "")
    /\ executing' = [executing EXCEPT ![client] = Idle]
    /\ UNCHANGED <<profile_vars, role_vars, mcp_vars, login_vars, loop_vars, tool_log, tfplan>>

\* ------------------------------------------------------- role update, profiles
\* _list_aws_profiles(): the sections of ~/.aws/config and credentials, sorted
_list_aws_profiles == <<"audit", "default", "dev">>

\* the payloads of the role update: [checker_profiles, maker_profiles]
RoleInputs ==
    {<< <<>>, <<"dev">> >>, << <<"ghost">>, <<>> >>, << <<"dev", "", "dev">>, <<"dev">> >>,
     << <<"default", "audit">>, <<>> >>, << <<"audit">>, <<"audit", "dev">> >>}

\* fault variant: the makers of the payload are stored as they came
_makers_as_given(given_makers, incoming_checkers, available_profiles) ==
    IF given_makers = <<>>
    THEN SelectSeq(available_profiles, LAMBDA p : p \notin SeqToSet(incoming_checkers))
    ELSE given_makers

\* the makers stored by an update: every other known profile when none is
\* given, else the given ones that are not checkers
_makers_without_checkers(given_makers, incoming_checkers, available_profiles) ==
    IF given_makers = <<>>
    THEN SelectSeq(available_profiles, LAMBDA p : p \notin SeqToSet(incoming_checkers))
    ELSE SelectSeq(given_makers, LAMBDA p : p \notin SeqToSet(incoming_checkers))

\* POST /api/maker-checker/roles
update_maker_checker_roles(checker_profiles, maker_profiles) ==
    LET available_profiles == _list_aws_profiles
        incoming_checkers == _normalize_profiles(checker_profiles)
        given_makers == _normalize_profiles(maker_profiles)
        unknown == SelectSeq(incoming_checkers \o given_makers,
                             LAMBDA p : p \notin SeqToSet(available_profiles))
        incoming_makers ==
            _makers_without_checkers(given_makers, incoming_checkers, available_profiles)
        new_config == [checker_profiles |-> incoming_checkers,
                       maker_profiles |-> incoming_makers]
    IN  /\ IF incoming_checkers = <<>>
           THEN /\ last_response' = Response("roles", "checker profile required")
                /\ UNCHANGED <<maker_checker_roles, role_file>>
           ELSE IF unknown # <<>>
           THEN /\ last_response' = Response("roles", "unknown profile")
                /\ UNCHANGED <<maker_checker_roles, role_file>>
           ELSE /\ maker_checker_roles' = new_config
                /\ role_file' = new_config
                /\ last_response' = Response("roles", "")
        /\ UNCHANGED <<profile_vars, checker_env, AWS_MCP_AVAILABLE, mcp_vars, login_vars, maker_checker_requests,
                       executing, loop_vars, tool_log, tfplan>>

\* POST /api/aws/profile
set_aws_profile(client, profile) ==
    /\ client_active_profiles' = [client_active_profiles EXCEPT ![client] = profile]
    /\ AWS_PROFILE' = profile
    /\ UNCHANGED <<role_vars, mcp_vars, login_vars, maker_checker_requests, executing, last_response,
                   loop_vars, tool_log, tfplan>>

\* GET /api/aws/identity
get_aws_identity(client) ==
    /\ AWS_MCP_AVAILABLE
    /\ AWS_PROFILE' = _current_profile(client)
    /\ UNCHANGED <<client_active_profiles, role_vars, mcp_vars, login_vars, maker_checker_requests, executing,
                   last_response, loop_vars, tool_log, tfplan>>

\* ------------------------------------------------------------- tool calls
ToolCall(name, project_name) == [name |-> name, args |-> [project_name |-> project_name]]

\* the calls a client or the LLM asks for
CallAlphabet ==
    {ToolCall("create_s3_bucket", ""), ToolCall("terraform_plan", "p1"),
     ToolCall("terraform_apply", "p2"), ToolCall("list_aws_resources", ""),
     ToolCall("terraform_destroy", "p1"), ToolCall("deploy_architecture", ""),
     ToolCall("recreate_stack", "")}

\* POST /api/mcp/execute
execute_mcp_tool(client, call, mcpServer, outcome) ==
    /\ get_mcp_server(mcpServer)
    /\ Len(tool_log) < MaxExecs
    /\ outcome \in ExecutorOutcomes(call.name, call.args)
    /\ AWS_PROFILE' = _current_profile(client)
    /\ tool_log' = Append(tool_log,
                          Invocation("direct", _current_profile(client),
                                     _current_profile(client), mcpServer, call.name,
                                     call.args, 0, 0, 0))
    /\ tfplan' = TfplanAfter(call.name, call.args, outcome)
    /\ UNCHANGED <<client_active_profiles, role_vars, mcp_vars, login_vars, maker_checker_requests, executing,
                   last_response, loop_vars>>

\* ------------------------------------------------------ orchestration loop
NotStarted ==
    [pc |-> "idle", events |-> <<>>, active_profile |-> "", mcpServer |-> "", thread_id |-> "",
     message |-> "", read_only_intent |-> FALSE, iteration |-> 0, tool_calls |-> <<>>,
     forced_followup_text |-> "", last_successful_plan_project |-> "",
     response_text |-> "", is_real_deploy |-> FALSE, provider |-> ""]

SystemMessage == [type |-> "system"]
HumanMessage(content) == [type |-> "human", content |-> content]
AIMessage(content, tool_calls) ==
    [type |-> "ai", content |-> content, tool_calls |-> tool_calls]
\* fault variant: the tool result does not carry the request id
ToolMessageWithoutRequest(tool_call_id, kind, success, request_id) ==
    [type |-> "tool", tool_call_id |-> tool_call_id, kind |-> kind,
     success |-> success, request_id |-> 0]

ToolMessage(tool_call_id, kind, success, request_id) ==
    [type |-> "tool", tool_call_id |-> tool_call_id, kind |-> kind,
     success |-> success, request_id |-> request_id]

\* fault variant: the message is appended whatever the last entry is
_history_appended(history, message) ==
    LET seeded == IF history = <<>> THEN <<SystemMessage>> ELSE history
    IN  Append(seeded, HumanMessage(message))

\* the history of a thread once run_agent has put the system prompt and the
\* user's message into it
_history_with_message(history, message) ==
    LET seeded == IF history = <<>> THEN <<SystemMessage>> ELSE history
    IN  IF Last(seeded).type # "human"
        THEN Append(seeded, HumanMessage(message))
        ELSE [seeded EXCEPT ![Len(seeded)].content = message]

\* the length of a final answer; "text" stands for a short answer of the LLM,
\* "queued" for the notice of the queue, which names the checker profile
TextLength(response_text) ==
    CASE response_text = "text" -> 4
      [] response_text = "No response generated." -> 22
      [] response_text = "initiated the infrastructure changes" -> 57
      [] response_text = "queued" -> 74
      [] response_text = "I need a few details to continue:\n1. Please provide value for 'cluster_name'.\nReply with the values, and I will continue." -> 121
      [] response_text = "Perplexity (Sonar) does not support MCP tool calling for this request. No MCP tools were executed. Switch to GPT-4o or Gemini and re-run the same prompt." -> 153
      [] OTHER -> 163

\* the size of a chunk of the final answer
chunk_size == 60

\* range(0, len(response_text), chunk_size): the number of chunks
Chunks(response_text) == (TextLength(response_text) + chunk_size - 1) \div chunk_size

\* fault variant: the run is finished before the message is ended
FinalEventsFinishedFirst(response_text) ==
    [i \in 1..Chunks(response_text) |-> "TEXT_MESSAGE_CONTENT"]
    \o <<"RUN_FINISHED", "TEXT_MESSAGE_END">>

\* what stream() yields after the loop: the chunks of the final answer, the
\* end of the message and the end of the run
FinalEvents(response_text) ==
    [i \in 1..Chunks(response_text) |-> "TEXT_MESSAGE_CONTENT"]
    \o <<"TEXT_MESSAGE_END", "RUN_FINISHED">>

\* what stream() yields before the loop; the note about tool calling is a
\* content event of its own
StartEvents(provider, mcpServer) ==
    <<"RUN_STARTED", "TEXT_MESSAGE_START">>
    \o (IF provider = "perplexity" /\ mcpServer # "none"
        THEN <<"TEXT_MESSAGE_CONTENT">> ELSE <<>>)

\* POST /api/run up to the StreamingResponse: the profile, the history and the
\* intent of the message (a non-empty message that is no capabilities question)
run_agent_with(r, client, message, mcpServer, thread_id, provider) ==
    /\ run[r].pc = "idle"
    /\ \A q \in Runs : q < r => run[q].pc # "idle"
    /\ LET active_profile == _current_profile(client)
           asked == _history_with_message(conversation_store[thread_id], message)
       IN  /\ AWS_PROFILE' = active_profile
           /\ conversation_store' = [conversation_store EXCEPT ![thread_id] = asked]
           /\ run' = [run EXCEPT ![r] =
                         [NotStarted EXCEPT
                             !.pc = "llm",
                             !.events = StartEvents(provider, mcpServer),
                             !.provider = provider,
                             !.active_profile = active_profile,
                             !.mcpServer = mcpServer,
                             !.thread_id = thread_id,
                             !.message = message,
                             !.read_only_intent = detect_read_only_intent(Chars(message))]]
    /\ UNCHANGED <<client_active_profiles, role_vars, mcp_vars, login_vars, maker_checker_requests, executing,
                   last_response, tool_log, tfplan>>

\* POST /api/run with a provider other than perplexity
run_agent(r, client, message, mcpServer, thread_id) ==
    run_agent_with(r, client, message, mcpServer, thread_id, "openai")

\* the final text of the run (lines after the while loop)
FinalText(forced_followup_text, response) ==
    IF forced_followup_text # "" THEN forced_followup_text
    ELSE IF response.content # "" THEN response.content
    ELSE IF response.tool_calls # <<>> THEN "initiated the infrastructure changes"
    ELSE "No response generated."

\* the guardrail against exact repeats in one LLM step
RECURSIVE DedupeFrom(_, _, _)
DedupeFrom(tool_calls, i, deduped) ==
    IF i > Len(tool_calls) THEN deduped
    ELSE IF \E j \in 1..Len(deduped) :
                /\ deduped[j].name = tool_calls[i].name
                /\ deduped[j].args = tool_calls[i].args
         THEN DedupeFrom(tool_calls, i + 1, deduped)
         ELSE DedupeFrom(tool_calls, i + 1, Append(deduped, tool_calls[i]))

Dedupe(tool_calls) == DedupeFrom(tool_calls, 1, <<>>)

\* what llm.invoke may return: a text, or up to MaxCallsPerTurn tool calls
\* (the modelled LLM asks for tools in at most MaxToolTurns turns of a run)
LLMResponsesOver(r, alphabet) ==
    {AIMessage(content, <<>>) : content \in {"", "text"}}
    \cup
    IF run[r].iteration < MaxToolTurns
    THEN {AIMessage("", [i \in DOMAIN calls |->
                            [name |-> calls[i].name, args |-> calls[i].args,
                             id |-> <<r, run[r].iteration + 1, i>>]]) :
              calls \in UNION {[1..m -> alphabet] : m \in 1..MaxCallsPerTurn}}
    ELSE {}

\* an LLM that may ask for tools in every turn, with or without a text
LLMResponsesEveryTurn(r, alphabet) ==
    {AIMessage(content, <<>>) : content \in {"", "text"}}
    \cup
    {AIMessage(content, [i \in DOMAIN calls |->
                            [name |-> calls[i].name, args |-> calls[i].args,
                             id |-> <<r, run[r].iteration + 1, i>>]]) :
         content \in {"", "text"},
         calls \in UNION {[1..m -> alphabet] : m \in 1..MaxCallsPerTurn}}

\* what llm.invoke hands to the loop: an AI message whose tool calls carry the
\* ids of this invocation
IsLLMResponse(r, response) ==
    /\ response.type = "ai"
    /\ \A i \in 1..Len(response.tool_calls) :
           response.tool_calls[i].id = <<r, run[r].iteration + 1, i>>

\* the text delivered when the provider's model rejects tool calling
PerplexityGuidance ==
    "Perplexity (Sonar) does not support MCP tool calling for this request. No MCP tools were executed. Switch to GPT-4o or Gemini and re-run the same prompt."

ToolCallingRejected == Chars("Tool calling is not supported for this model")

\* fault variant: every error of the provider is taken for the limitation
is_any_perplexity_error(provider, mcpServer, err_text) ==
    provider = "perplexity" /\ mcpServer # "none"

\* the condition of the except clause around llm.invoke
is_tool_calling_rejection(provider, mcpServer, err_text) ==
    /\ provider = "perplexity"
    /\ mcpServer # "none"
    /\ Contains(Chars(err_text), ToolCallingRejected)

\* llm.invoke raised err_text for a request to provider: the recognised
\* limitation ends the loop with the guidance text as the final answer, and
\* any other exception reaches the except clause of stream(), which ends the
\* run with RUN_ERROR
llm_invoke_raises(r, provider, err_text) ==
    /\ run[r].pc = "llm"
    /\ provider = run[r].provider
    /\ run[r].iteration < max_iterations
    /\ IF is_tool_calling_rejection(provider, run[r].mcpServer, err_text)
       THEN /\ conversation_store' =
                   [conversation_store EXCEPT
                       ![run[r].thread_id] = Append(@, AIMessage("", <<>>))]
            /\ run' = [run EXCEPT ![r].pc = "finished",
                                  ![r].forced_followup_text = PerplexityGuidance,
                                  ![r].events =
                                      @ \o FinalEvents(FinalText(PerplexityGuidance,
                                                                 AIMessage("", <<>>))),
                                  ![r].response_text =
                                      FinalText(PerplexityGuidance, AIMessage("", <<>>))]
       ELSE /\ run' = [run EXCEPT ![r].pc = "failed",
                                  ![r].events = Append(@, "RUN_ERROR")]
            /\ UNCHANGED conversation_store
    /\ UNCHANGED <<profile_vars, role_vars, mcp_vars, login_vars, maker_checker_requests, executing,
                   last_response, tool_log, tfplan>>

\* one pass of the while loop up to the for loop over the tool calls
llm_invoke(r, response) ==
    /\ run[r].pc = "llm"
    /\ run[r].iteration < max_iterations
    /\ IsLLMResponse(r, response)
    /\ conversation_store' =
           [conversation_store EXCEPT ![run[r].thread_id] = Append(@, response)]
    /\ LET tool_calls == Dedupe(response.tool_calls)
       IN  IF tool_calls # <<>>
           THEN run' = [run EXCEPT ![r].pc = "tools", ![r].tool_calls = tool_calls]
           ELSE run' = [run EXCEPT ![r].pc = "finished",
                                   ![r].events =
                                       @ \o FinalEvents(FinalText(run[r].forced_followup_text,
                                                                  response)),
                                   ![r].response_text =
                                       FinalText(run[r].forced_followup_text, response)]
    /\ UNCHANGED <<profile_vars, role_vars, mcp_vars, login_vars, maker_checker_requests, executing,
                   last_response, tool_log, tfplan>>

\* fault variant: the last planned project is taken although its plan is gone
RepairedArgsWithoutArtifact(r, tool_call) ==
    LET requested_project == tool_call.args.project_name
        last == run[r].last_successful_plan_project
    IN  IF tool_call.name = "terraform_apply" /\ run[r].mcpServer = "aws_terraform"
           /\ AWS_MCP_AVAILABLE /\ last # ""
           /\ (requested_project = "" \/ requested_project \notin tfplan)
        THEN [tool_call.args EXCEPT !.project_name = last]
        ELSE tool_call.args

\* the defensive repair of a terraform_apply project reference
RepairedArgs(r, tool_call) ==
    LET requested_project == tool_call.args.project_name
        last == run[r].last_successful_plan_project
        _has_tfplan(project) == project # "" /\ project \in tfplan
    IN  IF tool_call.name = "terraform_apply" /\ run[r].mcpServer = "aws_terraform"
           /\ AWS_MCP_AVAILABLE
        THEN IF requested_project # "" /\ ~_has_tfplan(requested_project)
             THEN IF last # "" /\ _has_tfplan(last)
                  THEN [tool_call.args EXCEPT !.project_name = last]
                  ELSE tool_call.args
             ELSE IF requested_project = "" /\ last # "" /\ _has_tfplan(last)
             THEN [tool_call.args EXCEPT !.project_name = last]
             ELSE tool_call.args
        ELSE tool_call.args

\* fault variant: the turn is not counted
AfterCallUncounted(r, locals, tool_message) ==
    LET history == Append(conversation_store[locals.thread_id], tool_message)
        rest == Tail(locals.tool_calls)
    IN  /\ conversation_store' =
               [conversation_store EXCEPT ![locals.thread_id] = history]
        /\ run' = [run EXCEPT ![r] =
               IF rest # <<>> THEN [locals EXCEPT !.tool_calls = rest]
               ELSE [locals EXCEPT !.tool_calls = rest, !.pc = "llm"]]

\* the run after one tool call of the turn: the next call, the next LLM
\* invocation, or the end of the loop at the iteration cap
AfterCall(r, locals, tool_message) ==
    LET history == Append(conversation_store[locals.thread_id], tool_message)
        rest == Tail(locals.tool_calls)
        response == CHOOSE m \in SeqToSet(history) :
                        /\ m.type = "ai"
                        /\ \E i \in 1..Len(m.tool_calls) :
                               m.tool_calls[i].id = tool_message.tool_call_id
    IN  /\ conversation_store' =
               [conversation_store EXCEPT ![locals.thread_id] = history]
        /\ run' = [run EXCEPT ![r] =
               IF rest # <<>> THEN [locals EXCEPT !.tool_calls = rest]
               ELSE IF locals.iteration + 1 < max_iterations
               THEN [locals EXCEPT !.tool_calls = rest, !.iteration = @ + 1, !.pc = "llm"]
               ELSE [locals EXCEPT !.tool_calls = rest, !.iteration = @ + 1,
                                   !.pc = "finished",
                                   !.events =
                                       @ \o FinalEvents(FinalText(locals.forced_followup_text,
                                                                  response)),
                                   !.response_text =
                                       FinalText(locals.forced_followup_text, response)]]

\* one pass of the for loop over the tool calls of the turn
tool_call_step(r, outcome, render) ==
    /\ run[r].pc = "tools"
    /\ LET tool_call == Head(run[r].tool_calls)
           tool_name == tool_call.name
           tool_args == RepairedArgs(r, tool_call)
           tool_call_id == tool_call.id
       IN  IF run[r].read_only_intent /\ is_mutating_tool(tool_name)
           THEN /\ outcome = "ok" /\ render = "rendered"
                /\ AfterCall(r, run[r], ToolMessage(tool_call_id, "blocked", FALSE, 0))
                /\ UNCHANGED <<maker_checker_requests, tool_log, tfplan>>
           ELSE IF _maker_checker_should_gate(tool_name, run[r].mcpServer,
                                              run[r].active_profile)
           THEN /\ outcome = "ok"
                /\ Len(maker_checker_requests) < MaxRequests
                /\ LET request_item ==
                           _create_maker_checker_request(
                               r, run[r].thread_id, tool_name, tool_args,
                               IF run[r].mcpServer # "" THEN run[r].mcpServer
                               ELSE "aws_terraform",
                               run[r].message, run[r].active_profile, render)
                   IN  /\ maker_checker_requests' =
                              Append(maker_checker_requests, request_item)
                       /\ AfterCall(r, [run[r] EXCEPT
                                           !.forced_followup_text = "queued",
                                           !.events = @ \o <<"MAKER_CHECKER_REQUEST",
                                                             "MAKER_CHECKER_STATUS">>],
                                    ToolMessage(tool_call_id, "queued", TRUE,
                                                request_item.request_id))
                /\ UNCHANGED <<tool_log, tfplan>>
           ELSE IF get_mcp_server(run[r].mcpServer)
           THEN /\ render = "rendered"
                /\ Len(tool_log) < MaxLoopExecs
                /\ outcome \in ExecutorOutcomes(tool_name, tool_args)
                /\ tool_log' =
                       Append(tool_log,
                              Invocation("loop", run[r].active_profile, AWS_PROFILE,
                                         run[r].mcpServer, tool_name, tool_args, 0, r,
                                         tool_call_id))
                /\ tfplan' = TfplanAfter(tool_name, tool_args, outcome)
                /\ LET planned ==
                           IF tool_name = "terraform_plan" /\ outcome = "ok"
                              /\ tool_args.project_name # ""
                           THEN tool_args.project_name
                           ELSE run[r].last_successful_plan_project
                       result == ExecutedResult(tool_name, outcome)
                       followup_text == build_followup_message(tool_name, result)
                       forced == IF followup_text # "" THEN followup_text
                                 ELSE run[r].forced_followup_text
                       tool_message ==
                           ToolMessage(tool_call_id,
                                       IF outcome = "raise" THEN "error" ELSE "result",
                                       result.success, 0)
                       yielded == IF outcome = "raise" THEN <<>> ELSE <<"TOOL_RESULT">>
                   IN  AfterCall(r, [run[r] EXCEPT !.last_successful_plan_project = planned,
                                               !.forced_followup_text = forced,
                                               !.events = @ \o yielded],
                                 IF result.missing_fields = <<>> THEN tool_message
                                 ELSE tool_message
                                      @@ [missing_fields |-> result.missing_fields,
                                          questions |-> result.questions])
                /\ UNCHANGED maker_checker_requests
           ELSE /\ outcome = "ok" /\ render = "rendered"
                /\ AfterCall(r, run[r], ToolMessage(tool_call_id, "no server", FALSE, 0))
                /\ UNCHANGED <<maker_checker_requests, tool_log, tfplan>>
    /\ UNCHANGED <<profile_vars, role_vars, mcp_vars, login_vars, executing, last_response>>

\* the Lambda handler's dispatch of one tool call: the kind of result it
\* appends to the messages (the handler has no approval store)
lambda_tool_result(read_only_intent, tool_name, is_real_deploy, mcp_available) ==
    IF read_only_intent /\ is_mutating_tool(tool_name) THEN "blocked"
    ELSE IF tool_name = "terraform_apply" /\ ~is_real_deploy THEN "dry run"
    ELSE IF mcp_available THEN "result"
    ELSE "no server"

\* ------------------------------------------------------------ specification
StartupEnvs ==
    {[many |-> <<>>, one |-> <<>>], [many |-> <<>>, one |-> <<"audit">>]}
StartupRoleFiles ==
    {[checker_profiles |-> <<>>, maker_profiles |-> <<>>],
     [checker_profiles |-> <<"audit">>, maker_profiles |-> <<"dev">>]}

\* fault variant: the file is read but no default checker is filled in
_load_without_default(file, env, aws_profile) ==
    [checker_profiles |-> _normalize_profiles(file.checker_profiles),
     maker_profiles |-> _normalize_profiles(file.maker_profiles)]

\* no handler has been called
NoResult == [tool |-> "", success |-> FALSE]

\* the configuration read at import time
_load_maker_checker_roles(file, env, aws_profile) ==
    LET checkers == _normalize_profiles(file.checker_profiles)
        makers == _normalize_profiles(file.maker_profiles)
        env_combined == _normalize_profiles(_parse_profile_list(env.many)
                                            \o _parse_profile_list(env.one))
    IN  [checker_profiles |->
             IF checkers # <<>> THEN checkers
             ELSE IF env_combined # <<>> THEN env_combined
             ELSE <<aws_profile>>,
         maker_profiles |-> makers]

\* os.environ.get("AWS_PROFILE", "default") of a process started without it
StartupProfile == "default"

Init ==
    /\ AWS_PROFILE = StartupProfile
    /\ client_active_profiles = [c \in Clients |-> ""]
    /\ checker_env \in StartupEnvs
    /\ role_file \in StartupRoleFiles
    /\ maker_checker_roles = _load_maker_checker_roles(role_file, checker_env, AWS_PROFILE)
    /\ AWS_MCP_AVAILABLE \in BOOLEAN
    /\ maker_checker_requests = <<>>
    /\ executing = [c \in Clients |-> Idle]
    /\ last_response = Response("", "")
    /\ run = [r \in Runs |-> NotStarted]
    /\ conversation_store = [t \in Threads |-> <<>>]
    /\ tool_log = <<>>
    /\ tfplan = {}
    /\ workspace = {}
    /\ ecs_workflows = <<>>
    /\ tool_result = NoResult
    /\ workflow_log = <<>>
    /\ aws_login_jobs = <<>>
    /\ aws_login_latest_id = 0

Outcomes == {"ok", "fail", "raise"}
Renders == {"rendered", "stderr", "silent"}
OneClient == {"c1"}

\* Every entry point that reaches the Tool Executor, with the handlers that
\* decide who may: the run, the direct endpoint, approve and execute, the
\* profile switch and the role update.
DirectAlphabet == {ToolCall("create_s3_bucket", ""), ToolCall("terraform_plan", "p1")}

Next ==
    \/ \E c \in OneClient, p \in {"dev", "audit"} : set_aws_profile(c, p)
    \/ \E i \in {x \in RoleInputs : x[2] = <<>>} : update_maker_checker_roles(i[1], i[2])
    \/ \E c \in OneClient, call \in DirectAlphabet, o \in Outcomes :
          execute_mcp_tool(c, call, "aws_terraform", o)
    \/ \E r \in Runs, c \in OneClient, m \in Messages, t \in Threads :
          run_agent(r, c, m, "aws_terraform", t)
    \/ \E r \in Runs : llm_invoke_raises(r, "openai", "Rate limit exceeded")
    \/ \E r \in Runs : \E response \in LLMResponsesOver(r, DirectAlphabet) :
          llm_invoke(r, response)
    \/ \E r \in Runs, o \in Outcomes, render \in Renders : tool_call_step(r, o, render)
    \/ \E c \in OneClient, id \in RequestIds : approve_maker_checker_request(c, id, "")
    \/ \E c \in OneClient, id \in RequestIds : execute_maker_checker_request(c, id, "")
    \/ \E c \in OneClient : execute_tool_invoked(c)
    \/ \E c \in OneClient, o \in Outcomes : execute_tool_returns(c, o)
    \/ \E c \in OneClient : execute_maker_checker_finish(c)

\* a server whose aws_terraform backend was imported, started without a role file
InitServing == Init /\ AWS_MCP_AVAILABLE /\ role_file.checker_profiles = <<>>

Spec == InitServing /\ [][Next]_vars

\* The Maker-Checker Store under concurrent clients: a run that queues a
\* request, then comment, approve, reject and execute calls in any order.
StoreAlphabet == {ToolCall("create_s3_bucket", "")}

InitStore == Init /\ checker_env.one = <<>> /\ role_file.checker_profiles # <<>>

NextStore ==
    \/ \E c \in Clients, p \in {"dev", "audit"} : set_aws_profile(c, p)
    \/ \E r \in Runs, c \in Clients, t \in Threads :
          run_agent(r, c, "create vpc", "aws_terraform", t)
    \/ \E r \in Runs : \E response \in LLMResponsesOver(r, StoreAlphabet) :
          llm_invoke(r, response)
    \/ \E r \in Runs, o \in Outcomes, render \in Renders : tool_call_step(r, o, render)
    \/ \E c \in Clients, id \in RequestIds, m \in CommentMessages :
          maker_checker_add_comment(c, id, m)
    \/ \E c \in Clients, id \in RequestIds, n \in Notes :
          approve_maker_checker_request(c, id, n)
    \/ \E c \in Clients, id \in RequestIds, n \in Notes :
          reject_maker_checker_request(c, id, n)
    \/ \E c \in Clients, id \in RequestIds, n \in Notes :
          execute_maker_checker_request(c, id, n)
    \/ \E c \in Clients : execute_tool_invoked(c)
    \/ \E c \in Clients, o \in Outcomes : execute_tool_returns(c, o)
    \/ \E c \in Clients : execute_maker_checker_finish(c)

SpecStore == InitStore /\ [][NextStore]_vars

\* The gate and the role configuration: runs under every startup
\* configuration, role updates, profile switches and decisions.
GateAlphabet == {ToolCall("create_s3_bucket", ""), ToolCall("list_aws_resources", "")}

NextRoles ==
    \/ \E c \in OneClient, p \in Profiles : set_aws_profile(c, p)
    \/ \E i \in RoleInputs : update_maker_checker_roles(i[1], i[2])
    \/ \E r \in Runs, c \in OneClient, m \in Messages, b \in RunBackends, t \in Threads :
          run_agent(r, c, m, b, t)
    \/ \E r \in Runs : \E response \in LLMResponsesOver(r, GateAlphabet) :
          llm_invoke(r, response)
    \/ \E r \in Runs, o \in Outcomes, render \in Renders : tool_call_step(r, o, render)
    \/ \E c \in OneClient, id \in RequestIds : approve_maker_checker_request(c, id, "")
    \/ \E c \in OneClient, id \in RequestIds : reject_maker_checker_request(c, id, "")

SpecRoles == Init /\ [][NextRoles]_vars

\* ------------------------------------------- the CLI's interactive loop
\* src/bin/langchain-agent.py is a process of its own. Its state is written in
\* the same variables: conversation_store[CliThread] is conversation_history,
\* run[r] holds the locals of the loop for the r-th query, tool_log records the
\* calls of aws_mcp.execute_tool, AWS_MCP_AVAILABLE is MCP_AVAILABLE and aws_mcp.
CliMaxCalls == 2

CliThread == "t1"

CliAlphabet == {ToolCall("create_s3_bucket", ""), ToolCall("list_aws_resources", "")}

\* what state["llm"].invoke may return: a text, or up to CliMaxCalls tool calls
CliLLMResponses(r) ==
    {AIMessage(content, <<>>) : content \in {"", "text"}}
    \cup
    IF run[r].iteration < MaxToolTurns
    THEN {AIMessage("", [i \in DOMAIN calls |->
                            [name |-> calls[i].name, args |-> calls[i].args,
                             id |-> <<r, run[r].iteration + 1, i>>]]) :
              calls \in UNION {[1..m -> CliAlphabet] : m \in 1..CliMaxCalls}}
    ELSE {}

\* a query that is no command, read when the loop of the query before it has
\* ended: the human message and the intent of the query
interactive_loop_query(r, user_query) ==
    /\ run[r].pc = "idle"
    /\ \A q \in Runs : q < r => run[q].pc \in {"cli_done", "cli_exhausted"}
    /\ conversation_store' =
           [conversation_store EXCEPT ![CliThread] =
               Append(IF @ = <<>> THEN <<SystemMessage>> ELSE @, HumanMessage(user_query))]
    /\ run' = [run EXCEPT ![r] =
                  [NotStarted EXCEPT
                      !.pc = "cli_llm",
                      !.thread_id = CliThread,
                      !.message = user_query,
                      !.read_only_intent = detect_read_only_intent(Chars(user_query))]]
    /\ UNCHANGED <<profile_vars, role_vars, mcp_vars, login_vars, maker_checker_requests, executing,
                   last_response, tool_log, tfplan>>

\* llm.invoke and extract_tool_calls: the calls are taken as the LLM gave them
interactive_loop_llm_invoke(r, response) ==
    /\ run[r].pc = "cli_llm"
    /\ run[r].iteration < max_iterations
    /\ IsLLMResponse(r, response)
    /\ conversation_store' =
           [conversation_store EXCEPT ![CliThread] = Append(@, response)]
    /\ LET tool_calls == response.tool_calls
       IN  IF tool_calls # <<>>
           THEN run' = [run EXCEPT ![r].pc = "cli_tools", ![r].tool_calls = tool_calls]
           ELSE run' = [run EXCEPT ![r].pc = "cli_done",
                                   ![r].response_text =
                                       IF run[r].forced_followup_text # ""
                                       THEN run[r].forced_followup_text
                                       ELSE response.content]
    /\ UNCHANGED <<profile_vars, role_vars, mcp_vars, login_vars, maker_checker_requests, executing,
                   last_response, tool_log, tfplan>>

\* one pass of the for loop over the tool calls of the turn
interactive_loop_tool_call(r, outcome) ==
    /\ run[r].pc = "cli_tools"
    /\ LET tool_call == Head(run[r].tool_calls)
           rest == Tail(run[r].tool_calls)
           next == IF rest # <<>> THEN [run[r] EXCEPT !.tool_calls = rest]
                   ELSE IF run[r].iteration + 1 < max_iterations
                   THEN [run[r] EXCEPT !.tool_calls = rest, !.iteration = @ + 1,
                                       !.pc = "cli_llm"]
                   ELSE [run[r] EXCEPT !.tool_calls = rest, !.iteration = @ + 1,
                                       !.pc = "cli_exhausted"]
           answered(kind, success) ==
               /\ conversation_store' =
                      [conversation_store EXCEPT ![CliThread] =
                          Append(@, ToolMessage(tool_call.id, kind, success, 0))]
               /\ run' = [run EXCEPT ![r] = next]
       IN  IF run[r].read_only_intent /\ is_mutating_tool(tool_call.name)
           THEN /\ outcome = "ok"
                /\ answered("blocked", FALSE)
                /\ UNCHANGED <<tool_log, tfplan>>
           ELSE IF AWS_MCP_AVAILABLE
           THEN /\ outcome \in ExecutorOutcomes(tool_call.name, tool_call.args)
                /\ tool_log' =
                       Append(tool_log,
                              Invocation("cli", "", AWS_PROFILE, "aws_terraform",
                                         tool_call.name, tool_call.args, 0, r,
                                         tool_call.id))
                /\ tfplan' = TfplanAfter(tool_call.name, tool_call.args, outcome)
                /\ answered(IF outcome = "raise" THEN "error" ELSE "result",
                            outcome = "ok")
           ELSE /\ outcome = "ok"
                /\ answered("no server", FALSE)
                /\ UNCHANGED <<tool_log, tfplan>>
    /\ UNCHANGED <<profile_vars, role_vars, mcp_vars, login_vars, maker_checker_requests, executing,
                   last_response>>

NextCli ==
    \/ \E r \in Runs, m \in Messages : interactive_loop_query(r, m)
    \/ \E r \in Runs : \E response \in CliLLMResponses(r) :
          interactive_loop_llm_invoke(r, response)
    \/ \E r \in Runs, o \in Outcomes : interactive_loop_tool_call(r, o)

SpecCli == Init /\ [][NextCli]_vars

\* ------------------------------------------------- the Lambda handler
\* src/deployment/lambda_handler.py handles one event per invocation. Its state
\* is written in the same variables: conversation_store[LambdaThread] is the
\* messages list, run[r] holds the locals of the r-th invocation, tool_log
\* records the calls of aws_mcp.execute_tool.
LambdaThread == "t1"

LambdaAlphabet == {ToolCall("create_s3_bucket", "")}

LambdaLLMResponses(r) == LLMResponsesEveryTurn(r, LambdaAlphabet)

\* the event up to the tool execution loop: the messages and the intent
lambda_handler(r, query, is_real_deploy) ==
    /\ run[r].pc = "idle"
    /\ \A q \in Runs : run[q].pc \in {"idle", "lambda_returned", "lambda_500"}
    /\ conversation_store' =
           [conversation_store EXCEPT ![LambdaThread] =
               <<HumanMessage(""), HumanMessage(query)>>]
    /\ run' = [run EXCEPT ![r] =
                  [NotStarted EXCEPT
                      !.pc = "lambda_llm",
                      !.thread_id = LambdaThread,
                      !.message = query,
                      !.is_real_deploy = is_real_deploy,
                      !.read_only_intent = detect_read_only_intent(Chars(query))]]
    /\ UNCHANGED <<profile_vars, role_vars, mcp_vars, login_vars, maker_checker_requests, executing,
                   last_response, tool_log, tfplan>>

\* llm.invoke(messages): tool calls to handle, or the final response
lambda_llm_invoke(r, response) ==
    /\ run[r].pc = "lambda_llm"
    /\ run[r].iteration < max_iterations
    /\ IsLLMResponse(r, response)
    /\ conversation_store' =
           [conversation_store EXCEPT ![LambdaThread] = Append(@, response)]
    /\ IF response.tool_calls # <<>>
       THEN run' = [run EXCEPT ![r].pc = "lambda_tools",
                               ![r].tool_calls = response.tool_calls]
       ELSE run' = [run EXCEPT ![r].pc = "lambda_returned",
                               ![r].response_text = response.content]
    /\ UNCHANGED <<profile_vars, role_vars, mcp_vars, login_vars, maker_checker_requests, executing,
                   last_response, tool_log, tfplan>>

\* llm.invoke raised: the except clause of the handler answers 500
lambda_llm_invoke_raises(r) ==
    /\ run[r].pc = "lambda_llm"
    /\ run[r].iteration < max_iterations
    /\ run' = [run EXCEPT ![r].pc = "lambda_500"]
    /\ UNCHANGED <<profile_vars, role_vars, mcp_vars, login_vars, maker_checker_requests, executing,
                   last_response, conversation_store, tool_log, tfplan>>

\* one pass of the for loop over response.tool_calls; execute_tool is called
\* outside any try of the loop, so what it raises reaches the handler's except
lambda_tool_call(r, outcome) ==
    /\ run[r].pc = "lambda_tools"
    /\ LET tool_call == Head(run[r].tool_calls)
           rest == Tail(run[r].tool_calls)
           kind == lambda_tool_result(run[r].read_only_intent, tool_call.name,
                                      run[r].is_real_deploy, AWS_MCP_AVAILABLE)
           next == IF rest # <<>> THEN [run[r] EXCEPT !.tool_calls = rest]
                   ELSE IF run[r].iteration + 1 < max_iterations
                   THEN [run[r] EXCEPT !.tool_calls = rest, !.iteration = @ + 1,
                                       !.pc = "lambda_llm"]
                   ELSE [run[r] EXCEPT !.tool_calls = rest, !.iteration = @ + 1,
                                       !.pc = "lambda_returned"]
           answered(success) ==
               /\ conversation_store' =
                      [conversation_store EXCEPT ![LambdaThread] =
                          Append(@, ToolMessage(tool_call.id, kind, success, 0))]
               /\ run' = [run EXCEPT ![r] = next]
       IN  IF kind = "result"
           THEN /\ outcome \in ExecutorOutcomes(tool_call.name, tool_call.args)
                /\ tool_log' =
                       Append(tool_log,
                              Invocation("lambda", "", AWS_PROFILE, "aws_terraform",
                                         tool_call.name, tool_call.args, 0, r,
                                         tool_call.id))
                /\ tfplan' = TfplanAfter(tool_call.name, tool_call.args, outcome)
                /\ IF outcome = "raise"
                   THEN /\ run' = [run EXCEPT ![r].pc = "lambda_500"]
                        /\ UNCHANGED conversation_store
                   ELSE answered(outcome = "ok")
           ELSE /\ outcome = "ok"
                /\ answered(FALSE)
                /\ UNCHANGED <<tool_log, tfplan>>
    /\ UNCHANGED <<profile_vars, role_vars, mcp_vars, login_vars, maker_checker_requests, executing,
                   last_response>>

\* ------------------------------------- the three loops, asked for tools
\* in every turn
LoopAlphabet == {ToolCall("create_s3_bucket", "")}

InitLoops == Init /\ checker_env.one = <<>> /\ role_file.checker_profiles = <<>>

NextLoops ==
    \/ \E r \in Runs, c \in OneClient, m \in Messages :
          run_agent(r, c, m, "aws_terraform", "t1")
    \/ \E r \in Runs : llm_invoke_raises(r, "openai", "Rate limit exceeded")
    \/ \E r \in Runs : \E response \in LLMResponsesEveryTurn(r, LoopAlphabet) :
          llm_invoke(r, response)
    \/ \E r \in Runs, o \in Outcomes, render \in Renders : tool_call_step(r, o, render)
    \/ \E r \in Runs, m \in Messages : interactive_loop_query(r, m)
    \/ \E r \in Runs : \E response \in LLMResponsesEveryTurn(r, LoopAlphabet) :
          interactive_loop_llm_invoke(r, response)
    \/ \E r \in Runs, o \in Outcomes : interactive_loop_tool_call(r, o)
    \/ \E r \in Runs, m \in Messages, d \in BOOLEAN : lambda_handler(r, m, d)
    \/ \E r \in Runs : lambda_llm_invoke_raises(r)
    \/ \E r \in Runs : \E response \in LambdaLLMResponses(r) :
          lambda_llm_invoke(r, response)
    \/ \E r \in Runs, o \in Outcomes : lambda_tool_call(r, o)

SpecLoops == InitLoops /\ [][NextLoops]_vars

\* ------------------------------------- the three loops, with tool calls
\* whose execution may return success, return a failure or raise
FailureCalls == 2

FailureAlphabet == {ToolCall("terraform_plan", "p1"), ToolCall("list_aws_resources", "")}

\* tool calls in the first MaxToolTurns turns, up to FailureCalls in a turn
FailureResponses(r) ==
    {AIMessage("text", <<>>)}
    \cup
    IF run[r].iteration < MaxToolTurns
    THEN {AIMessage("", [i \in DOMAIN calls |->
                            [name |-> calls[i].name, args |-> calls[i].args,
                             id |-> <<r, run[r].iteration + 1, i>>]]) :
              calls \in UNION {[1..m -> FailureAlphabet] : m \in 1..FailureCalls}}
    ELSE {}

NextFailures ==
    \/ \E r \in Runs, c \in OneClient, m \in Messages :
          run_agent(r, c, m, "aws_terraform", "t1")
    \/ \E r \in Runs : llm_invoke_raises(r, "openai", "Rate limit exceeded")
    \/ \E r \in Runs : \E response \in FailureResponses(r) : llm_invoke(r, response)
    \/ \E r \in Runs, o \in Outcomes, render \in Renders : tool_call_step(r, o, render)
    \/ \E r \in Runs, m \in Messages : interactive_loop_query(r, m)
    \/ \E r \in Runs : \E response \in FailureResponses(r) :
          interactive_loop_llm_invoke(r, response)
    \/ \E r \in Runs, o \in Outcomes : interactive_loop_tool_call(r, o)
    \/ \E r \in Runs, m \in Messages, d \in BOOLEAN : lambda_handler(r, m, d)
    \/ \E r \in Runs : lambda_llm_invoke_raises(r)
    \/ \E r \in Runs : \E response \in FailureResponses(r) :
          lambda_llm_invoke(r, response)
    \/ \E r \in Runs, o \in Outcomes : lambda_tool_call(r, o)

SpecFailures == InitLoops /\ [][NextFailures]_vars

\* ------------------------------------- the server loop with an LLM whose
\* invocation may raise, for each provider and each selection of the MCP server
Providers == {"perplexity", "openai"}

LlmErrors ==
    {"Tool calling is not supported for this model",
     "Error code: 400 - Tool calling is not supported for this model.",
     "tool calling is not supported for this model",
     "Rate limit exceeded"}

ProviderServers == {"aws_terraform", "none"}

ProviderAlphabet == {ToolCall("terraform_plan", "p1"), ToolCall("list_aws_resources", "")}

NextProviders ==
    \/ \E r \in Runs, c \in OneClient, m \in Messages, server \in ProviderServers,
          provider \in Providers :
          run_agent_with(r, c, m, server, "t1", provider)
    \/ \E r \in Runs, provider \in Providers, err_text \in LlmErrors :
          llm_invoke_raises(r, provider, err_text)
    \/ \E r \in Runs : \E response \in LLMResponsesOver(r, ProviderAlphabet) :
          llm_invoke(r, response)
    \/ \E r \in Runs, o \in Outcomes, render \in Renders : tool_call_step(r, o, render)

SpecProviders == Init /\ [][NextProviders]_vars

\* ------------------------------------- the executor's Terraform handlers
\* MCPAWSManagerServer of src/mcp_servers/aws_terraform_server.py: the handlers
\* behind execute_tool that create Terraform projects and plan, apply and
\* destroy them. workspace holds the project directories, tfplan the projects
\* with a saved plan, tool_result the dict the handler returned.
agent_vars ==
    <<AWS_PROFILE, client_active_profiles, checker_env, role_file,
      maker_checker_roles, AWS_MCP_AVAILABLE, maker_checker_requests, executing,
      last_response, run, conversation_store, tool_log, login_vars>>

\* dict.get of a key that is absent
None == "<None>"

\* f"s3_{bucket_name}"
S3Project(bucket_name) ==
    CASE bucket_name = "b1" -> "s3_b1"
      [] bucket_name = "b2" -> "s3_b2"

\* f"ec2_{instance_type}_{region}"
Ec2Project(instance_type, region) ==
    CASE instance_type = "t2.micro" /\ region = "us-east-1" -> "ec2_t2.micro_us-east-1"
      [] instance_type = "t2.micro" /\ region = "ap-south-1" -> "ec2_t2.micro_ap-south-1"

\* the project names above in sorted() order
ProjectOrder ==
    <<"ec2_t2.micro_ap-south-1", "ec2_t2.micro_us-east-1", "s3_b1", "s3_b2">>

\* the dict a handler returns: keys are the keys the dict has
Result(tool, success, error, project_name, ran, keys) ==
    [tool |-> tool, success |-> success, error |-> error,
     project_name |-> project_name, ran |-> ran, keys |-> keys,
     named |-> <<>>, missing_fields |-> <<>>, questions |-> <<>>]

\* what _run_terraform returns for a command that was run
RunTerraform(tool, project_name, outcome) ==
    IF outcome = "ok"
    THEN Result(tool, TRUE, "", project_name, TRUE,
                {"success", "stdout", "stderr", "error", "returncode"})
    ELSE Result(tool, FALSE, "stderr", project_name, TRUE,
                {"success", "stdout", "stderr", "error", "returncode"})

\* _resolve_project_name: the name itself when its directory exists, the name
\* with a known prefix when that directory exists, and else the name (no
\* resource id or resource name of a state file matches the names used here)
_resolve_project_name(project_name) ==
    IF project_name \in {None, ""} THEN project_name
    ELSE IF project_name \in workspace THEN project_name
    ELSE IF project_name \in {"b1", "b2"} /\ S3Project(project_name) \in workspace
    THEN S3Project(project_name)
    ELSE project_name

\* _create_s3_bucket; permitted is what rbac.check_permission answers and
\* outcome what terraform init (or the CLI) does
_create_s3_bucket(params, permitted, outcome) ==
    LET bucket_name == params.bucket_name
        mode == IF params.mode = None THEN "terraform" ELSE params.mode
    IN  /\ outcome \in {"ok", "fail"}
        /\ IF bucket_name \in {None, ""}
           THEN /\ tool_result' = Result("create_s3_bucket", FALSE, "bucket_name is required",
                                         "", FALSE, {"success", "error"})
                /\ UNCHANGED workspace
           ELSE IF ~permitted
           THEN /\ tool_result' = Result("create_s3_bucket", FALSE,
                                         "User lacks s3:CreateBucket permission",
                                         "", FALSE, {"success", "error"})
                /\ UNCHANGED workspace
           ELSE IF mode = "cli"
           THEN /\ tool_result' = Result("create_s3_bucket", outcome = "ok",
                                         IF outcome = "ok" THEN "" ELSE "stderr",
                                         "", FALSE, {"success", "error"})
                /\ UNCHANGED workspace
           ELSE /\ workspace' = workspace \cup {S3Project(bucket_name)}
                /\ tool_result' =
                       IF outcome = "ok"
                       THEN Result("create_s3_bucket", TRUE, "", S3Project(bucket_name), TRUE,
                                   {"success", "project_name", "message", "config_review"})
                       ELSE RunTerraform("create_s3_bucket", "", outcome)
        /\ UNCHANGED <<agent_vars, tfplan, ecs_workflows, workflow_log>>

\* _create_ec2_instance
_create_ec2_instance(params, permitted, outcome) ==
    LET instance_type == IF params.instance_type = None THEN "t2.micro"
                         ELSE params.instance_type
        region == IF params.region = None THEN "us-east-1" ELSE params.region
        ami_id == params.ami_id
        mode == IF params.mode = None THEN "terraform" ELSE params.mode
        project_name == Ec2Project(instance_type, region)
    IN  /\ outcome \in {"ok", "fail"}
        /\ IF ~permitted
           THEN /\ tool_result' = Result("create_ec2_instance", FALSE,
                                         "User lacks ec2:RunInstances permission",
                                         "", FALSE, {"success", "error"})
                /\ UNCHANGED workspace
           ELSE IF mode = "cli"
           THEN /\ tool_result' =
                       IF ami_id = None
                       THEN Result("create_ec2_instance", FALSE,
                                   "ami_id is required for CLI mode", "", FALSE,
                                   {"success", "error"})
                       ELSE Result("create_ec2_instance", outcome = "ok",
                                   IF outcome = "ok" THEN "" ELSE "stderr",
                                   "", FALSE, {"success", "error"})
                /\ UNCHANGED workspace
           ELSE /\ workspace' = workspace \cup {project_name}
                /\ tool_result' =
                       IF outcome = "ok"
                       THEN Result("create_ec2_instance", TRUE, "", project_name, TRUE,
                                   {"success", "project_name", "message", "config_review"})
                       ELSE RunTerraform("create_ec2_instance", "", outcome)
        /\ UNCHANGED <<agent_vars, tfplan, ecs_workflows, workflow_log>>

\* _terraform_plan: terraform plan -out=tfplan in the project directory
_terraform_plan(project_name_param, outcome) ==
    LET project_name == _resolve_project_name(project_name_param)
    IN  /\ outcome \in {"ok", "fail"}
        /\ IF project_name \in {None, ""}
           THEN /\ outcome = "fail"
                /\ tool_result' = Result("terraform_plan", FALSE, "project_name is required",
                                         "", FALSE, {"success", "error"})
                /\ UNCHANGED tfplan
           ELSE /\ outcome = "ok" => project_name \in workspace
                /\ tool_result' = RunTerraform("terraform_plan", project_name, outcome)
                /\ tfplan' = IF outcome = "ok" THEN tfplan \cup {project_name} ELSE tfplan
        /\ UNCHANGED <<agent_vars, workspace, ecs_workflows, workflow_log>>

\* _projects_with_tfplan of src/mcp_servers/aws_terraform/terraform.py
_projects_with_tfplan == SelectSeq(ProjectOrder, LAMBDA project : project \in tfplan)

\* TerraformManager.apply of src/mcp_servers/aws_terraform/terraform.py, the
\* class the unit tests build
aws_terraform_TerraformManager_apply(project_dir, auto_approve, outcome) ==
    IF project_dir \in tfplan \/ auto_approve
    THEN RunTerraform("terraform_apply", project_dir, outcome)
    ELSE IF _projects_with_tfplan # <<>>
    THEN [Result("terraform_apply", FALSE, "No tfplan file found for project",
                 project_dir, FALSE, {"success", "error"})
             EXCEPT !.named = _projects_with_tfplan]
    ELSE Result("terraform_apply", FALSE,
                "No tfplan file found. Please run terraform_plan first.",
                project_dir, FALSE, {"success", "error"})

\* TerraformManager.apply of src/mcp_servers/aws_terraform_server.py, the class
\* MCPAWSManagerServer builds
TerraformManager_apply(project_dir, auto_approve, outcome) ==
    IF project_dir \in tfplan \/ auto_approve
    THEN RunTerraform("terraform_apply", project_dir, outcome)
    ELSE Result("terraform_apply", FALSE,
                "No tfplan file found. Please run terraform_plan first.",
                project_dir, FALSE, {"success", "error"})

\* _terraform_apply, the handler of the executor
_terraform_apply(project_name_param, auto_approve, outcome) ==
    LET project_name == _resolve_project_name(project_name_param)
    IN  /\ outcome \in {"ok", "fail"}
        /\ outcome = "ok" => project_name \in workspace
        /\ tool_result' =
               IF project_name \in {None, ""}
               THEN Result("terraform_apply", FALSE, "project_name is required",
                           "", FALSE, {"success", "error"})
               ELSE TerraformManager_apply(project_name, auto_approve, outcome)
        /\ UNCHANGED <<agent_vars, tfplan, workspace, ecs_workflows, workflow_log>>

\* manager.apply(project_dir, auto_approve) on the packaged class
aws_terraform_apply(project_dir, auto_approve, outcome) ==
    /\ outcome \in {"ok", "fail"}
    /\ outcome = "ok" => project_dir \in workspace
    /\ tool_result' = aws_terraform_TerraformManager_apply(project_dir, auto_approve, outcome)
    /\ UNCHANGED <<agent_vars, tfplan, workspace, ecs_workflows, workflow_log>>

\* _terraform_destroy: the saved plan is removed before terraform destroy runs
_terraform_destroy(project_name_param, outcome) ==
    LET project_name == _resolve_project_name(project_name_param)
    IN  /\ outcome \in {"ok", "fail"}
        /\ IF project_name \in {None, ""}
           THEN /\ tool_result' = Result("terraform_destroy", FALSE,
                                         "project_name is required", "", FALSE,
                                         {"success", "error"})
                /\ UNCHANGED tfplan
           ELSE IF project_name \notin workspace
           THEN /\ tool_result' = Result("terraform_destroy", FALSE,
                                         "Project directory not found", project_name,
                                         FALSE, {"success", "error"})
                /\ UNCHANGED tfplan
           ELSE /\ tfplan' = tfplan \ {project_name}
                /\ tool_result' =
                       [RunTerraform("terraform_destroy", project_name, outcome)
                           EXCEPT !.keys = {"success", "stdout", "stderr", "returncode"}]
        /\ UNCHANGED <<agent_vars, workspace, ecs_workflows, workflow_log>>

S3Params ==
    [bucket_name : {None, "", "b1", "b2"}, region : {None, "us-east-1"},
     mode : {None, "cli"}]

Ec2Params ==
    [instance_type : {None}, region : {None, "ap-south-1"}, ami_id : {None, "ami-1"},
     mode : {None, "cli"}]

ProjectParams == {None, "b1", "s3_b1", "s3_b2", "ec2_t2.micro_us-east-1"}

NextTerraform ==
    \/ \E params \in S3Params, permitted \in BOOLEAN, o \in Outcomes :
          _create_s3_bucket(params, permitted, o)
    \/ \E params \in Ec2Params, permitted \in BOOLEAN, o \in Outcomes :
          _create_ec2_instance(params, permitted, o)
    \/ \E project \in ProjectParams, o \in Outcomes : _terraform_plan(project, o)
    \/ \E project \in ProjectParams, a \in BOOLEAN, o \in Outcomes :
          _terraform_apply(project, a, o)
    \/ \E project \in ProjectParams \ {None}, a \in BOOLEAN, o \in Outcomes :
          aws_terraform_apply(project, a, o)
    \/ \E project \in ProjectParams, o \in Outcomes : _terraform_destroy(project, o)

\* the executor imported, no checker configured
InitTerraform == InitLoops /\ AWS_MCP_AVAILABLE

SpecTerraform == InitTerraform /\ [][NextTerraform]_vars

\* ------------------------------------- the audit reconstructed from the
\* workflow log
\* A record of the log is a dict; the fields read by the audit are kept, a
\* field a record does not have is "" (tool_call_id), NoArgs (tool_args) or
\* FALSE (success). The timestamp of a record is its place in the log.
MaxEvents == 3

AuditRuns == {"r1", "r2"}
AuditKeys == {<<"r1", "c1">>, <<"r1", "c2">>, <<"r2", "c1">>}
AuditTools == {"terraform_apply", "list_aws_resources", "review_ecs_deployment_workflow"}
AuditArgs == {[project_name |-> "p1"], [project_name |-> "p2"]}

Record(event_type, run_id, tool_call_id, tool_name, tool_args, success) ==
    [event_type |-> event_type, run_id |-> run_id, tool_call_id |-> tool_call_id,
     tool_name |-> tool_name, tool_args |-> tool_args, success |-> success]

\* the records the server writes for a tool call, and one of another kind
AuditRecords ==
    {Record("tool_execution_started", key[1], key[2], tool, args, FALSE) :
         key \in AuditKeys, tool \in {"terraform_apply", "list_aws_resources"},
         args \in AuditArgs}
    \cup
    {Record("tool_execution_completed", key[1], key[2], tool, NoArgs, success) :
         key \in AuditKeys, tool \in AuditTools, success \in BOOLEAN}
    \cup
    {Record("tool_execution_failed", key[1], key[2], tool, NoArgs, FALSE) :
         key \in AuditKeys, tool \in AuditTools}
    \cup
    {Record("tool_execution_blocked", run_id, "", tool, NoArgs, FALSE) :
         run_id \in AuditRuns, tool \in AuditTools}
    \cup
    {Record("llm_invocation_started", "r1", "", "", NoArgs, FALSE)}

\* fault variant: the audit's allow-list is left out
_audit_without_allow_list(tool_name) == is_mutating_tool(tool_name)

_audit_is_mutating_tool(tool_name) ==
    IF is_mutating_tool(tool_name) THEN TRUE
    ELSE tool_name \in {"create_ecs_service", "start_ecs_deployment_workflow",
                        "update_ecs_deployment_workflow",
                        "review_ecs_deployment_workflow", "deploy_architecture"}

\* fault variant: the arguments are remembered by run only
key_of_run(record) == <<record.run_id, "">>

\* key = (run_id, tool_call_id)
key_of(record) == <<record.run_id, record.tool_call_id>>

\* one row of the audit made from the record at place timestamp of the log
AuditEntry(timestamp, record, status, tool_args) ==
    [timestamp |-> timestamp, run_id |-> record.run_id, user |-> "unknown",
     cloud |-> "aws", action |-> record.tool_name, status |-> status,
     tool_args |-> tool_args, maker_checker |-> FALSE]

\* the for loop over the records: started_by_call remembers the arguments of
\* the started events, entries collects the rows
RECURSIVE _event_entries(_, _, _, _)
_event_entries(log, i, started_by_call, entries) ==
    IF i > Len(log) THEN entries
    ELSE LET record == log[i]
             event_type == record.event_type
             tool_name == record.tool_name
         IN  IF event_type = "tool_execution_started"
             THEN _event_entries(log, i + 1,
                                 [k \in DOMAIN started_by_call \cup {key_of(record)} |->
                                      IF k = key_of(record) THEN record.tool_args
                                      ELSE started_by_call[k]],
                                 entries)
             ELSE LET tool_args == IF key_of(record) \in DOMAIN started_by_call
                                   THEN started_by_call[key_of(record)]
                                   ELSE NoArgs
                  IN  IF event_type = "tool_execution_completed"
                      THEN IF ~_audit_is_mutating_tool(tool_name)
                           THEN _event_entries(log, i + 1, started_by_call, entries)
                           ELSE _event_entries(
                                    log, i + 1, started_by_call,
                                    Append(entries,
                                           AuditEntry(i, record,
                                                      IF record.success THEN "success"
                                                      ELSE "failed",
                                                      tool_args)))
                      ELSE IF /\ event_type \in {"tool_execution_failed",
                                                 "tool_execution_blocked"}
                              /\ _audit_is_mutating_tool(tool_name)
                      THEN _event_entries(
                               log, i + 1, started_by_call,
                               Append(entries,
                                      AuditEntry(i, record,
                                                 IF event_type = "tool_execution_blocked"
                                                 THEN "blocked" ELSE "failed",
                                                 tool_args)))
                      ELSE _event_entries(log, i + 1, started_by_call, entries)

\* the rows of the maker-checker timeline
_request_entries(requests) ==
    [k \in 1..Len(requests) |->
        [timestamp |-> requests[k].updated_at, run_id |-> requests[k].run_id,
         user |-> requests[k].requester_profile, cloud |-> "aws",
         action |-> requests[k].tool_name, status |-> requests[k].status,
         tool_args |-> requests[k].tool_args, maker_checker |-> TRUE]]

\* entries.sort(key=timestamp, reverse=True): a stable sort, newest first
RECURSIVE _sorted_newest_first(_, _)
_sorted_newest_first(entries, sorted) ==
    IF entries = <<>> THEN sorted
    ELSE LET entry == Head(entries)
             before == SelectSeq(sorted, LAMBDA e : e.timestamp >= entry.timestamp)
             after == SelectSeq(sorted, LAMBDA e : e.timestamp < entry.timestamp)
         IN  _sorted_newest_first(Tail(entries), before \o <<entry>> \o after)

\* the default of the limit parameter
AuditLimit == 500

\* _collect_audit_entries without filters: the rows returned
_collect_audit_entries(log, requests, limit) ==
    LET entries == _event_entries(log, 1, <<>>, <<>>) \o _request_entries(requests)
        filtered == _sorted_newest_first(entries, <<>>)
    IN  IF limit > 0 /\ Len(filtered) > limit THEN SubSeq(filtered, 1, limit)
        ELSE filtered

\* workflow_event: one record is appended to the log
workflow_event(record) ==
    /\ Len(workflow_log) < MaxEvents
    /\ workflow_log' = Append(workflow_log, record)
    /\ UNCHANGED <<agent_vars, tfplan, workspace, ecs_workflows, tool_result>>

NextAudit == \E record \in AuditRecords : workflow_event(record)

SpecAudit == InitTerraform /\ [][NextAudit]_vars

\* ------------------------------------------- the guided ECS deployment
\* ecs_workflows holds the workflows in the order they were started; the id
\* of a workflow (f"ecs-{uuid}", never repeated) is its place, and 0 is a
\* workflow_id that is absent or empty. A params dict is a function of the
\* keys it has. Of the five optional keys of a configuration desired_count is
\* kept; container_port, cpu, memory and assign_public_ip are copied the same
\* way and read by no check.
MaxWorkflows == 1

\* the tuple required of _ecs_missing_fields
EcsRequired ==
    <<"region", "cluster_name", "service_name", "container_image",
      "execution_role_arn", "task_role_arn", "subnet_ids", "security_group_ids">>

\* the keys whose values are lists
EcsListKeys == {"subnet_ids", "security_group_ids"}

\* the keys _update_ecs_deployment_workflow copies
EcsKeys ==
    {"region", "cluster_name", "service_name", "container_image",
     "execution_role_arn", "task_role_arn", "subnet_ids", "security_group_ids",
     "desired_count"}

\* fault variant: an empty list passes for a value
_ecs_value_is_missing_unless_list(key, value) ==
    IF key \in EcsListKeys THEN FALSE
    ELSE value = None \/ strip(value) = ""

\* one pass of the loop of _ecs_missing_fields: is this value missing

_ecs_value_is_missing(key, value) ==
    IF key \in EcsListKeys THEN Len(value) = 0
    ELSE value = None \/ strip(value) = ""

_ecs_missing_fields(config) ==
    SelectSeq(EcsRequired, LAMBDA key : _ecs_value_is_missing(key, config[key]))

\* params.get(key)
Get(params, key) == IF key \in DOMAIN params THEN params[key] ELSE None

\* the config dict built from params by _start_ecs_deployment_workflow and by
\* _create_ecs_service without a workflow; AWS_REGION is not set
_ecs_config_from(params) ==
    [key \in EcsKeys |->
        IF key = "region"
        THEN IF Get(params, key) \in {None, ""} THEN "us-east-1" ELSE params[key]
        ELSE IF key \in EcsListKeys
        THEN IF key \in DOMAIN params THEN params[key] ELSE <<>>
        ELSE IF key = "desired_count"
        THEN IF key \in DOMAIN params THEN params[key] ELSE 1
        ELSE Get(params, key)]

\* f"ecs_{service_name}_{region}"
EcsProject(service_name, region) ==
    CASE service_name = "agent-service" /\ region = "us-east-1" -> "ecs_agent-service_us-east-1"
      [] service_name = "agent-service" /\ region = "ap-south-1" -> "ecs_agent-service_ap-south-1"
      [] service_name = "agent-service" /\ region = " " -> "ecs_agent-service_ "
      [] service_name = "agent-service" /\ region = "" -> "ecs_agent-service_"
      [] service_name = "service" /\ region = "us-east-1" -> "ecs_service_us-east-1"
      [] service_name = "service" /\ region = "ap-south-1" -> "ecs_service_ap-south-1"
      [] service_name = "service" /\ region = " " -> "ecs_service_ "
      [] service_name = "service" /\ region = "" -> "ecs_service_"
      [] service_name = " " /\ region = "us-east-1" -> "ecs_ _us-east-1"
      [] service_name = " " /\ region = "ap-south-1" -> "ecs_ _ap-south-1"
      [] service_name = " " /\ region = " " -> "ecs_ _ "
      [] service_name = " " /\ region = "" -> "ecs_ _"

\* the dict an ECS handler returns; preflight is None when no validation ran
\* and else what _validate_ecs_prereqs found
EcsResult(tool, success, error, workflow_id, missing, preflight, ready, project_name, ran) ==
    [tool |-> tool, success |-> success, error |-> error,
     workflow_id |-> workflow_id, missing_fields |-> missing,
     preflight |-> preflight, ready_to_create |-> ready,
     project_name |-> project_name, ran |-> ran]

\* a handler's answer to a workflow_id that is absent or names no workflow
EcsNoWorkflow(tool, workflow_id) ==
    EcsResult(tool, FALSE,
              IF workflow_id = 0 THEN "workflow_id is required" ELSE "ECS workflow not found",
              workflow_id, <<>>, None, FALSE, "", FALSE)

\* missing, preflight and ready_to_create as the three workflow handlers
\* compute them; valid is what _validate_ecs_prereqs finds in the account
_ecs_preflight(missing, valid) ==
    IF Len(missing) = 0 THEN (IF valid THEN "valid" ELSE "invalid") ELSE None

_ecs_ready_to_create(missing, preflight) ==
    Len(missing) = 0 /\ preflight = "valid"

\* _start_ecs_deployment_workflow
_start_ecs_deployment_workflow(params, valid) ==
    LET workflow_id == Len(ecs_workflows) + 1
        config == _ecs_config_from(params)
        missing == _ecs_missing_fields(config)
        preflight == _ecs_preflight(missing, valid)
    IN  /\ Len(ecs_workflows) < MaxWorkflows
        /\ ecs_workflows' = Append(ecs_workflows, [config |-> config])
        /\ tool_result' = EcsResult("start_ecs_deployment_workflow", TRUE, "", workflow_id,
                                    missing, preflight,
                                    _ecs_ready_to_create(missing, preflight), "", FALSE)
        /\ UNCHANGED <<agent_vars, tfplan, workspace, workflow_log>>

\* _update_ecs_deployment_workflow
_update_ecs_deployment_workflow(params, valid) ==
    LET workflow_id == params.workflow_id
    IN  /\ IF workflow_id \notin DOMAIN ecs_workflows
           THEN /\ tool_result' = EcsNoWorkflow("update_ecs_deployment_workflow", workflow_id)
                /\ UNCHANGED ecs_workflows
           ELSE LET old == ecs_workflows[workflow_id].config
                    config == [key \in EcsKeys |->
                                  IF key \in DOMAIN params
                                     /\ (key \in EcsListKeys \/ key = "desired_count"
                                         \/ params[key] # None)
                                  THEN params[key] ELSE old[key]]
                    missing == _ecs_missing_fields(config)
                    preflight == _ecs_preflight(missing, valid)
                IN  /\ ecs_workflows' =
                           [ecs_workflows EXCEPT ![workflow_id] = [config |-> config]]
                    /\ tool_result' =
                           EcsResult("update_ecs_deployment_workflow", TRUE, "", workflow_id,
                                     missing, preflight,
                                     _ecs_ready_to_create(missing, preflight), "", FALSE)
        /\ UNCHANGED <<agent_vars, tfplan, workspace, workflow_log>>

\* _review_ecs_deployment_workflow
_review_ecs_deployment_workflow(params, valid) ==
    LET workflow_id == params.workflow_id
    IN  /\ IF workflow_id \notin DOMAIN ecs_workflows
           THEN tool_result' = EcsNoWorkflow("review_ecs_deployment_workflow", workflow_id)
           ELSE LET config == ecs_workflows[workflow_id].config
                    missing == _ecs_missing_fields(config)
                    preflight == _ecs_preflight(missing, valid)
                    service_name == IF config.service_name \in {None, ""} THEN "service"
                                    ELSE config.service_name
                IN  tool_result' =
                        EcsResult("review_ecs_deployment_workflow", TRUE, "", workflow_id,
                                  missing, preflight,
                                  _ecs_ready_to_create(missing, preflight),
                                  EcsProject(service_name, config.region), FALSE)
        /\ UNCHANGED <<agent_vars, tfplan, workspace, ecs_workflows, workflow_log>>

\* fault variant: the creation goes on whatever the preflight found
_ecs_preflight_ignored(valid) == FALSE

\* does the preflight of _create_ecs_service stop the creation

_ecs_preflight_blocks(valid) == ~valid

\* _create_ecs_service; permitted is what the three rbac.check_permission
\* calls answer together, outcome what terraform init does
_create_ecs_service(params, permitted, valid, outcome) ==
    LET workflow_id == params.workflow_id
        Fail(error, missing, preflight) ==
            /\ tool_result' = EcsResult("create_ecs_service", FALSE, error, workflow_id,
                                        missing, preflight, FALSE, "", FALSE)
            /\ UNCHANGED workspace
    IN  /\ outcome \in {"ok", "fail"}
        /\ IF ~permitted
           THEN Fail("User lacks permission", <<>>, None)
           ELSE IF workflow_id # 0 /\ workflow_id \notin DOMAIN ecs_workflows
           THEN Fail("ECS workflow not found", <<>>, None)
           ELSE LET config == IF workflow_id # 0 THEN ecs_workflows[workflow_id].config
                              ELSE _ecs_config_from(params)
                    missing == _ecs_missing_fields(config)
                    project_name == EcsProject(config.service_name, config.region)
                IN  IF Len(missing) > 0
                    THEN Fail("Missing required ECS configuration fields", missing, None)
                    ELSE IF _ecs_preflight_blocks(valid)
                    THEN Fail("ECS preflight validation failed", <<>>, "invalid")
                    ELSE /\ workspace' = workspace \cup {project_name}
                         /\ tool_result' =
                                IF outcome = "ok"
                                THEN EcsResult("create_ecs_service", TRUE, "", workflow_id,
                                               <<>>, "valid", FALSE, project_name, TRUE)
                                ELSE EcsResult("create_ecs_service", FALSE, "stderr", 0,
                                               <<>>, None, FALSE, "", TRUE)
        /\ UNCHANGED <<agent_vars, tfplan, ecs_workflows, workflow_log>>

\* the workflow ids a call can carry: none, each known one, one unknown
EcsWorkflowIds == 0..(MaxWorkflows + 1)

\* the fields of tests/test_ecs_workflow.py, with a blank and an absent value
\* next to them
EcsComplete ==
    [region |-> "ap-south-1", cluster_name |-> "agent-cluster",
     service_name |-> "agent-service", container_image |-> "nginx:latest",
     execution_role_arn |-> "arn:exec", task_role_arn |-> "arn:task",
     subnet_ids |-> <<"subnet-1">>, security_group_ids |-> <<"sg-1">>]

\* what a start is called with: the two fields of the test, every field, a
\* blank region, nothing
EcsStartParams ==
    {[workflow_id |-> 0, region |-> "ap-south-1", service_name |-> "agent-service"],
     ("workflow_id" :> 0) @@ EcsComplete,
     [workflow_id |-> 0, region |-> " "],
     [workflow_id |-> 0]}

\* what an update can set: the remaining fields of the test, a blank name, an
\* empty list, an explicit None, one field, an empty region
EcsUpdateFields ==
    {[cluster_name |-> "agent-cluster", container_image |-> "nginx:latest",
      execution_role_arn |-> "arn:exec", task_role_arn |-> "arn:task",
      subnet_ids |-> <<"subnet-1">>, security_group_ids |-> <<"sg-1">>,
      desired_count |-> 2],
     [cluster_name |-> " "], [subnet_ids |-> <<>>], [cluster_name |-> None],
     [service_name |-> "agent-service"], [region |-> ""]}

EcsUpdateParams ==
    {("workflow_id" :> id) @@ fields : id \in EcsWorkflowIds, fields \in EcsUpdateFields}

EcsReviewParams == {[workflow_id |-> id] : id \in EcsWorkflowIds}

\* create_ecs_service is called for a workflow or with the fields themselves
EcsCreateParams ==
    EcsReviewParams
    \cup {("workflow_id" :> 0) @@ EcsComplete,
          [workflow_id |-> 0, region |-> "", cluster_name |-> "agent-cluster",
           service_name |-> "agent-service", container_image |-> "nginx:latest",
           execution_role_arn |-> "arn:exec", task_role_arn |-> "arn:task",
           subnet_ids |-> <<"subnet-1">>, security_group_ids |-> <<>>]}

NextEcs ==
    \/ \E params \in EcsStartParams, valid \in BOOLEAN :
          _start_ecs_deployment_workflow(params, valid)
    \/ \E params \in EcsUpdateParams, valid \in BOOLEAN :
          _update_ecs_deployment_workflow(params, valid)
    \/ \E params \in EcsReviewParams, valid \in BOOLEAN :
          _review_ecs_deployment_workflow(params, valid)
    \/ \E params \in EcsCreateParams, permitted \in BOOLEAN, valid \in BOOLEAN,
          o \in {"ok", "fail"} :
          _create_ecs_service(params, permitted, valid, o)

SpecEcs == InitTerraform /\ [][NextEcs]_vars

\* ------------------------------------------- one thread over many runs
\* The locals of a request are gone once its stream has ended; the slot then
\* holds the next request of the thread. conversation_store outlives them.
MaxHistory == 5

\* the stream of POST /api/run has ended
run_agent_returns(r) ==
    /\ run[r].pc \in {"finished", "failed"}
    /\ run' = [run EXCEPT ![r] = NotStarted]
    /\ UNCHANGED <<profile_vars, role_vars, mcp_vars, login_vars, maker_checker_requests, executing,
                   last_response, conversation_store, tool_log, tfplan>>

NextHistory ==
    \/ \E r \in Runs, c \in OneClient, m \in Messages, t \in Threads :
          /\ Len(conversation_store[t]) < MaxHistory
          /\ run_agent(r, c, m, "aws_terraform", t)
    \/ \E r \in Runs : llm_invoke_raises(r, "openai", "Rate limit exceeded")
    \/ \E r \in Runs : \E response \in LLMResponsesOver(r, LoopAlphabet) :
          llm_invoke(r, response)
    \/ \E r \in Runs, o \in Outcomes, render \in Renders : tool_call_step(r, o, render)
    \/ \E r \in Runs : run_agent_returns(r)

SpecHistory == InitLoops /\ [][NextHistory]_vars

\* ------------------------------------------- plan, destroy and apply in
\* one run, with a role update that can put the gate in the way
RepairAlphabet ==
    {ToolCall("terraform_plan", "p1"), ToolCall("terraform_plan", "p2"),
     ToolCall("terraform_destroy", "p1"), ToolCall("terraform_apply", ""),
     ToolCall("terraform_apply", "p1"), ToolCall("terraform_apply", "p2")}

\* the LLM asks for one call of the alphabet, or answers with or without text
CallOrAnswer(r, alphabet) ==
    {AIMessage(content, <<>>) : content \in {"", "text"}}
    \cup
    {AIMessage("", <<[name |-> call.name, args |-> call.args,
                      id |-> <<r, run[r].iteration + 1, 1>>]>>) : call \in alphabet}

NextRepair ==
    \/ \E r \in Runs, c \in OneClient :
          run_agent(r, c, "create vpc", "aws_terraform", "t1")
    \/ \E r \in Runs : \E response \in CallOrAnswer(r, RepairAlphabet) :
          llm_invoke(r, response)
    \/ \E r \in Runs, o \in Outcomes : tool_call_step(r, o, "rendered")
    \/ update_maker_checker_roles(<<"audit">>, <<>>)

SpecRepair == InitTerraform /\ [][NextRepair]_vars

\* ------------------------------------------- a run that asks for more
\* The LLM drives the guided ECS deployment for a requester who is a checker
\* or a maker: the workflow tools are executed, create_ecs_service is gated
\* for a maker.
FollowupAlphabet ==
    {ToolCall("start_ecs_deployment_workflow", ""), ToolCall("create_ecs_service", "")}

NextFollowup ==
    \/ \E r \in Runs, c \in OneClient :
          run_agent(r, c, "create vpc", "aws_terraform", "t1")
    \/ \E r \in Runs : \E response \in CallOrAnswer(r, FollowupAlphabet) :
          llm_invoke(r, response)
    \/ \E r \in Runs, o \in Outcomes \cup MissingOutcomes :
          tool_call_step(r, o, "rendered")

InitFollowup == Init /\ checker_env.one = <<>> /\ AWS_MCP_AVAILABLE

SpecFollowup == InitFollowup /\ [][NextFollowup]_vars

\* ------------------------------------------------------- the login flow
\* POST /api/aws/login starts a thread per job; the thread runs the commands
\* of the mode one after the other and writes the status of its job. A job is
\* [profile, mode, client_key, status, commands, pc, error]: commands are the
\* ones the thread has not finished yet, pc is where the thread stands
\* ("start" before its loop, "subprocess" inside subprocess.run, "done").
MaxLogins == 2

LoginModes == {"auto", "login", "sso", "device"}
LoginProfiles == {"dev"}

\* what the two subprocess calls of a pass and the calls after them come to:
\* login and identity fine; login fine and identity not verified; a non-zero
\* exit; FileNotFoundError; TimeoutExpired; any other exception, raised by
\* the login or after the profile was activated
LoginOutcomes == {"ok", "unverified", "exit", "not found", "timeout", "raise", "raise late"}

\* the commands of a mode
commands_of(mode) ==
    (IF mode \in {"auto", "login"} THEN <<"aws login">> ELSE <<>>)
    \o (IF mode \in {"auto", "sso"} THEN <<"aws sso login">> ELSE <<>>)

LoginResponse(error, login_id, status) ==
    [op |-> "login", error |-> error, login_id |-> login_id, status |-> status]

\* POST /api/aws/login; mode is the payload's, lower-cased by the thread
trigger_aws_login(client, profile, mode, aws_found) ==
    /\ Len(aws_login_jobs) < MaxLogins
    /\ IF ~aws_found
       THEN /\ last_response' = LoginResponse("AWS CLI not found", 0, "")
            /\ UNCHANGED login_vars
       ELSE LET login_id == Len(aws_login_jobs) + 1
                job == [profile |-> profile, mode |-> mode, client_key |-> client,
                        status |-> "queued", commands |-> commands_of(mode),
                        pc |-> "start", error |-> ""]
            IN  /\ aws_login_jobs' = Append(aws_login_jobs, job)
                /\ aws_login_latest_id' = login_id
                /\ last_response' = LoginResponse("", login_id, "queued")
    /\ UNCHANGED <<profile_vars, role_vars, mcp_vars, maker_checker_requests, executing,
                   loop_vars, tool_log, tfplan>>

\* the thread of a job at the head of its loop: the next command is started,
\* or, with no command left, the job is failed
_run_aws_login_job_with_browser(login_id) ==
    /\ login_id \in 1..Len(aws_login_jobs)
    /\ aws_login_jobs[login_id].pc = "start"
    /\ LET job == aws_login_jobs[login_id]
       IN  aws_login_jobs' =
               [aws_login_jobs EXCEPT ![login_id] =
                   IF job.commands # <<>>
                   THEN [job EXCEPT !.status = "running", !.pc = "subprocess"]
                   ELSE [job EXCEPT !.status = "failed", !.pc = "done",
                                    !.error = IF job.error # "" THEN job.error
                                              ELSE "Unknown login error."]]
    /\ UNCHANGED <<profile_vars, role_vars, mcp_vars, maker_checker_requests, executing,
                   last_response, loop_vars, tool_log, tfplan, aws_login_latest_id>>

\* subprocess.run of the command returns or raises, and the pass ends
login_subprocess_returns(login_id, outcome) ==
    /\ login_id \in 1..Len(aws_login_jobs)
    /\ aws_login_jobs[login_id].pc = "subprocess"
    /\ LET job == aws_login_jobs[login_id]
           activated == outcome \in {"ok", "raise late"}
       IN  /\ aws_login_jobs' =
                  [aws_login_jobs EXCEPT ![login_id] =
                      IF outcome = "ok"
                      THEN [job EXCEPT !.status = "success", !.pc = "done"]
                      ELSE [job EXCEPT !.commands = Tail(job.commands), !.pc = "start",
                                       !.error = outcome]]
           /\ AWS_PROFILE' = IF activated THEN job.profile ELSE AWS_PROFILE
           /\ client_active_profiles' =
                  IF activated
                  THEN [client_active_profiles EXCEPT ![job.client_key] = job.profile]
                  ELSE client_active_profiles
    /\ UNCHANGED <<role_vars, mcp_vars, maker_checker_requests, executing,
                   last_response, loop_vars, tool_log, tfplan, aws_login_latest_id>>

\* GET /api/aws/login/status; login_id 0 is a lookup without an id
aws_login_status(login_id) ==
    /\ LET lookup_id == IF login_id = 0 THEN aws_login_latest_id ELSE login_id
       IN  last_response' =
               IF lookup_id \in 1..Len(aws_login_jobs)
               THEN LoginResponse("", lookup_id, aws_login_jobs[lookup_id].status)
               ELSE LoginResponse("No login job found.", 0, "")
    /\ UNCHANGED <<profile_vars, role_vars, mcp_vars, maker_checker_requests, executing,
                   loop_vars, tool_log, tfplan, login_vars>>

LoginIds == 0..(MaxLogins + 1)

NextLogin ==
    \/ \E c \in OneClient, p \in LoginProfiles, m \in LoginModes, found \in BOOLEAN :
          trigger_aws_login(c, p, m, found)
    \/ \E id \in LoginIds : _run_aws_login_job_with_browser(id)
    \/ \E id \in LoginIds, o \in LoginOutcomes : login_subprocess_returns(id, o)
    \/ \E id \in LoginIds : aws_login_status(id)

SpecLogin == InitServing /\ [][NextLogin]_vars

\* each thread is scheduled, and each subprocess returns or times out
LoginFairness ==
    \A id \in 1..MaxLogins :
        /\ WF_vars(_run_aws_login_job_with_browser(id))
        /\ WF_vars(\E o \in LoginOutcomes : login_subprocess_returns(id, o))

SpecLoginFair == SpecLogin /\ LoginFairness

\* ------------------------------------------- the results of a turn's calls
\* The LLM asks for one or two calls in a turn, the same call twice included,
\* of a requester who is a checker or a maker, with a read-only or a mutating
\* message, with and without the aws_terraform backend.
ResultsAlphabet == {ToolCall("create_s3_bucket", ""), ToolCall("list_aws_resources", "")}

\* what llm.invoke may return here: a text, or one or two tool calls
OneOrTwoCalls(r, alphabet) ==
    {AIMessage("text", <<>>)}
    \cup
    {AIMessage("", [i \in DOMAIN calls |->
                       [name |-> calls[i].name, args |-> calls[i].args,
                        id |-> <<r, run[r].iteration + 1, i>>]]) :
         calls \in UNION {[1..m -> alphabet] : m \in 1..2}}

NextResults ==
    \/ \E r \in Runs, c \in OneClient, m \in {"list vpc", "create vpc"} :
          run_agent(r, c, m, "aws_terraform", "t1")
    \/ \E r \in Runs : \E response \in OneOrTwoCalls(r, ResultsAlphabet) :
          llm_invoke(r, response)
    \/ \E r \in Runs, o \in Outcomes : tool_call_step(r, o, "rendered")

InitResults == Init /\ checker_env.one = <<>>

SpecResults == InitResults /\ [][NextResults]_vars

\* --------------------------------------------- the execution of a request
\* A maker's call is queued, a checker approves it and any client has it
\* executed, with and without the aws_terraform backend.
NextExecute ==
    \/ \E c \in Clients : set_aws_profile(c, "audit")
    \/ \E r \in Runs, c \in OneClient : run_agent(r, c, "create vpc", "aws_terraform", "t1")
    \/ \E r \in Runs : \E response \in LLMResponsesOver(r, StoreAlphabet) :
          llm_invoke(r, response)
    \/ \E r \in Runs, o \in Outcomes : tool_call_step(r, o, "rendered")
    \/ \E c \in Clients, id \in RequestIds : approve_maker_checker_request(c, id, "")
    \/ \E c \in Clients, id \in RequestIds : execute_maker_checker_request(c, id, "")
    \/ \E c \in Clients : execute_tool_invoked(c)
    \/ \E c \in Clients, o \in Outcomes : execute_tool_returns(c, o)
    \/ \E c \in Clients : execute_maker_checker_finish(c)

SpecExecute == InitStore /\ [][NextExecute]_vars

\* the handler of an execute call runs on, and the executor's call returns
ExecuteFairness ==
    \A c \in Clients :
        /\ WF_vars(execute_tool_invoked(c))
        /\ WF_vars(\E o \in Outcomes : execute_tool_returns(c, o))
        /\ WF_vars(execute_maker_checker_finish(c))

SpecExecuteFair == SpecExecute /\ ExecuteFairness

\* ----------------------------------------------------- the event stream
\* Runs of each provider, with a read-only or a mutating message, for a
\* checker or a maker, with and without the backend: calls are blocked,
\* queued, executed (with missing fields too) or raise, the LLM raises the
\* provider's limitation or another error, and the loop reaches its cap.
StreamAlphabet ==
    ResultsAlphabet \cup {ToolCall("start_ecs_deployment_workflow", "")}

StreamErrors == {"Tool calling is not supported for this model", "Rate limit exceeded"}

NextStream ==
    \/ \E r \in Runs, c \in OneClient, m \in {"list vpc", "create vpc"}, provider \in Providers :
          run_agent_with(r, c, m, "aws_terraform", "t1", provider)
    \/ \E r \in Runs : \E response \in CallOrAnswer(r, StreamAlphabet) :
          llm_invoke(r, response)
    \/ \E r \in Runs, provider \in Providers, err_text \in StreamErrors :
          llm_invoke_raises(r, provider, err_text)
    \/ \E r \in Runs, o \in Outcomes \cup MissingOutcomes : tool_call_step(r, o, "rendered")

SpecStream == InitResults /\ [][NextStream]_vars

\* ------------------------------------------------- the intent policy at work
\* messages whose keywords are known, and every kind of tool name
PolicyMessages ==
    {"Summarize resources", "List EC2", "Create a VPC", "hello there",
     "list then delete", "my playlist", "SPIN UP and show", "what  resources",
     "WHAT RESOURCES", "deployed inventory"}

PolicyAlphabet ==
    {ToolCall("create_s3_bucket", ""), ToolCall("terraform_plan", "p1"),
     ToolCall("terraform_apply", "p2"), ToolCall("terraform_destroy", "p1"),
     ToolCall("list_aws_resources", ""), ToolCall("deploy_architecture", ""),
     ToolCall("recreate_stack", "")}

NextPolicy ==
    \/ \E c \in OneClient, p \in {"dev", "audit"} : set_aws_profile(c, p)
    \/ \E r \in Runs, c \in OneClient, m \in PolicyMessages :
          run_agent(r, c, m, "aws_terraform", "t1")
    \/ \E r \in Runs : \E response \in LLMResponsesOver(r, PolicyAlphabet) :
          llm_invoke(r, response)
    \/ \E r \in Runs, o \in Outcomes, render \in Renders : tool_call_step(r, o, render)

SpecPolicy == Init /\ [][NextPolicy]_vars

\* --------------------------------------- every operation on a decided request
FrozenRoleInputs == {<< <<"default", "audit">>, <<>> >>, << <<"audit">>, <<"audit", "dev">> >>}

NextFrozen ==
    \/ \E c \in OneClient, p \in {"dev", "audit"} : set_aws_profile(c, p)
    \/ \E i \in FrozenRoleInputs : update_maker_checker_roles(i[1], i[2])
    \/ \E r \in Runs, c \in OneClient, t \in Threads :
          run_agent(r, c, "create vpc", "aws_terraform", t)
    \/ \E r \in Runs : \E response \in LLMResponsesOver(r, StoreAlphabet) :
          llm_invoke(r, response)
    \/ \E r \in Runs, o \in Outcomes, render \in Renders : tool_call_step(r, o, render)
    \/ \E c \in OneClient, id \in RequestIds, m \in {" ", "ok"} :
          maker_checker_add_comment(c, id, m)
    \/ \E c \in OneClient, id \in RequestIds : approve_maker_checker_request(c, id, "")
    \/ \E c \in OneClient, id \in RequestIds : reject_maker_checker_request(c, id, "")
    \/ \E c \in OneClient, id \in RequestIds : execute_maker_checker_request(c, id, "")
    \/ \E c \in OneClient : execute_tool_invoked(c)
    \/ \E c \in OneClient, o \in Outcomes : execute_tool_returns(c, o)
    \/ \E c \in OneClient : execute_maker_checker_finish(c)

SpecFrozen == InitServing /\ [][NextFrozen]_vars

\* ------------------------------------------------------------------ claims
\* the tools the approval workflow is about
MutatingToolNames ==
    {"create_s3_bucket", "terraform_plan", "terraform_apply", "terraform_destroy"}

StatusTransitions ==
    {<<"pending", "approved">>, <<"pending", "rejected">>, <<"approved", "executing">>,
     <<"executing", "executed">>, <<"executing", "failed">>}

Requests == 1..Len(maker_checker_requests)

\* C1: with backend aws_terraform, a checker configured and an acting profile
\* that is not a checker, every mutating tool call handed to the Tool Executor,
\* by the loop, by the direct endpoint or by the maker-checker execute, is the
\* stored tool of a request that was approved before.
C1_MakerCheckerSafety ==
    [][\A i \in (Len(tool_log) + 1)..Len(tool_log') :
          LET call == tool_log'[i]
          IN  (/\ call.mcp_server = "aws_terraform"
               /\ call.tool_name \in MutatingToolNames
               /\ maker_checker_roles.checker_profiles # <<>>
               /\ call.actor \notin SeqToSet(maker_checker_roles.checker_profiles))
              => \E id \in Requests :
                     /\ maker_checker_requests[id].approved_at > 0
                     /\ maker_checker_requests[id].tool_name = call.tool_name
                     /\ maker_checker_requests[id].tool_args = call.tool_args]_vars

\* C2: every change of a request's status is one of pending->approved,
\* pending->rejected, approved->executing, executing->executed,
\* executing->failed; a request is never removed and starts as pending.
C2_StatusTransitions ==
    [][/\ Len(maker_checker_requests') >= Len(maker_checker_requests)
       /\ \A id \in Requests :
              LET before == maker_checker_requests[id].status
                  after == maker_checker_requests'[id].status
              IN  before # after => <<before, after>> \in StatusTransitions
       /\ \A id \in (Len(maker_checker_requests) + 1)..Len(maker_checker_requests') :
              maker_checker_requests'[id].status = "pending"]_vars

C2_Witness ==
    \E id \in Requests :
        /\ maker_checker_requests[id].status = "executed"
        /\ maker_checker_requests[id].executed_at = 1

\* C3: an execute call on a request whose status is not approved answers with
\* an error, starts no execution, hands nothing to the Tool Executor and
\* leaves the store as it was.
C3_ExecuteNeedsApproval ==
    [][\A c \in Clients, id \in RequestIds, n \in Notes :
          (/\ Found(id)
           /\ maker_checker_requests[id].status # "approved"
           /\ execute_maker_checker_request(c, id, n))
          => /\ last_response' = Response("execute", "not approved yet")
             /\ maker_checker_requests' = maker_checker_requests
             /\ executing' = executing
             /\ tool_log' = tool_log]_vars

C3_Witness ==
    /\ maker_checker_requests # <<>>
    /\ maker_checker_requests[1].status = "rejected"
    /\ last_response = Response("execute", "not approved yet")
    /\ tool_log = <<>>

\* C4: approved_at and rejected_at are each written at most once and never
\* both; once one of them is written, no later step writes either, and every
\* later approve or reject call on the request answers with an error.
C4_DecidedOnce ==
    [][/\ \A id \in 1..Len(maker_checker_requests') :
              LET item == maker_checker_requests'[id]
              IN  /\ item.approved_at <= 1
                  /\ item.rejected_at <= 1
                  /\ ~(item.approved_at > 0 /\ item.rejected_at > 0)
       /\ \A id \in Requests :
              LET item == maker_checker_requests[id]
              IN  item.approved_at + item.rejected_at > 0
                  => /\ maker_checker_requests'[id].approved_at = item.approved_at
                     /\ maker_checker_requests'[id].rejected_at = item.rejected_at
                     /\ \A c \in Clients, n \in Notes :
                            (\/ approve_maker_checker_request(c, id, n)
                             \/ reject_maker_checker_request(c, id, n))
                            => last_response'.error # ""]_vars

C4_Witness ==
    /\ maker_checker_requests # <<>>
    /\ maker_checker_requests[1].status = "approved"
    /\ maker_checker_requests[1].approved_at = 1
    /\ last_response = Response("approve", "not pending")

\* C5: of all the approve and reject calls on a request exactly one succeeds
\* once any checker has called: the successful decisions number at most one,
\* none while the request is pending, and the status is the one that decision
\* set (rejected, or approved and what follows it).
C5_OneDecision ==
    \A id \in Requests :
        LET item == maker_checker_requests[id]
        IN  /\ item.approved_at + item.rejected_at <= 1
            /\ item.status = "pending" <=> item.approved_at + item.rejected_at = 0
            /\ item.status = "rejected" <=> item.rejected_at = 1
            /\ item.status \in {"approved", "executing", "executed", "failed"}
                   <=> item.approved_at = 1

C5_Witness ==
    /\ maker_checker_requests # <<>>
    /\ client_active_profiles["c1"] = client_active_profiles["c2"]
    /\ _is_checker_profile(client_active_profiles["c1"])
    /\ maker_checker_requests[1].rejected_at = 1
    /\ last_response = Response("approve", "not pending")

\* C6: the Tool Executor is invoked for a request at most once, however the
\* execute calls on it interleave, also while the first execution runs
\* outside the lock.
C6_ExecutedAtMostOnce ==
    \A id \in Requests :
        Cardinality({i \in DOMAIN tool_log :
                        /\ tool_log[i].via = "maker_checker"
                        /\ tool_log[i].request_id = id}) <= 1

C6_Witness ==
    /\ \E c \in Clients : executing[c].pc = "running"
    /\ last_response = Response("execute", "not approved yet")
    /\ Len(tool_log) = 1

\* C7: an approve or reject call succeeds only for an acting profile in the
\* checker set the request snapshotted when it was created, whatever the role
\* configuration has become since.
C7_SnapshotAuthorises ==
    [][\A id \in Requests : \A c \in Clients :
          (/\ \/ approve_maker_checker_request(c, id, "")
              \/ reject_maker_checker_request(c, id, "")
           /\ maker_checker_requests'[id].status # maker_checker_requests[id].status)
          => _current_profile(c) \in SeqToSet(maker_checker_requests[id].checker_profiles)]_vars

\* C8: for every tool name, backend and profile, the gate answers true
\* exactly when the backend is aws_terraform, the tool is mutating, a checker
\* is configured and the profile is not one of the configured checkers.
C8_ShouldGateIff ==
    \A tool_name \in ToolNames, backend \in Backends, profile \in Profiles :
        _maker_checker_should_gate(tool_name, backend, profile)
        <=> /\ backend = "aws_terraform"
            /\ tool_name \in MutatingToolNames
            /\ maker_checker_roles.checker_profiles # <<>>
            /\ profile \notin SeqToSet(maker_checker_roles.checker_profiles)

C8_Witness ==
    /\ maker_checker_roles.checker_profiles = <<"default", "audit">>
    /\ _maker_checker_should_gate("create_s3_bucket", "aws_terraform", "dev")
    /\ ~_maker_checker_should_gate("create_s3_bucket", "aws_terraform", "audit")
    /\ ~_maker_checker_should_gate("list_aws_resources", "aws_terraform", "dev")
    /\ \E r \in Runs : run[r].pc = "tools" /\ run[r].active_profile = "dev"

\* no role file entries and no checker environment settings
Unconfigured ==
    /\ role_file.checker_profiles = <<>>
    /\ checker_env.many = <<>>
    /\ checker_env.one = <<>>

\* a step of run r that handles a mutating aws_terraform call which the
\* read-only block lets through
HandlesMutatingCall(r) ==
    /\ run[r].pc = "tools"
    /\ run'[r] # run[r]
    /\ run[r].mcpServer = "aws_terraform"
    /\ Head(run[r].tool_calls).name \in MutatingToolNames
    /\ ~run[r].read_only_intent

\* C9 as stated: with no checker profiles configured no request is ever
\* created, whatever the active profile of the run.
C9_NeverGatedUnconfigured == Unconfigured => maker_checker_requests = <<>>

\* C9 amended: with no checker profiles configured the checker set is the
\* profile the process started with; a mutating call of a run under that
\* profile goes to the Tool Executor with no request created, and a mutating
\* call of a run under any other profile is queued and not executed.
C9_StartupProfileIsChecker ==
    [][Unconfigured =>
          /\ maker_checker_roles.checker_profiles = <<StartupProfile>>
          /\ \A r \in Runs :
                 HandlesMutatingCall(r) =>
                     IF run[r].active_profile = StartupProfile
                     THEN /\ maker_checker_requests' = maker_checker_requests
                          /\ AWS_MCP_AVAILABLE => Len(tool_log') = Len(tool_log) + 1
                     ELSE /\ Len(maker_checker_requests') = Len(maker_checker_requests) + 1
                          /\ tool_log' = tool_log]_vars

C9_Witness ==
    /\ Unconfigured
    /\ maker_checker_requests = <<>>
    /\ \E i \in DOMAIN tool_log :
           /\ tool_log[i].via = "loop"
           /\ tool_log[i].actor = StartupProfile
           /\ tool_log[i].mcp_server = "aws_terraform"
           /\ tool_log[i].tool_name \in MutatingToolNames

\* C10: when the gate fires for a call of a run, the step adds exactly one
\* request, pending, with the run's active profile as requester and the
\* call's tool name and arguments; nothing is handed to the Tool Executor for
\* the call; and the history of the thread gains a tool result for the call
\* that carries the id of the new request.
C10_GateQueuesRequest ==
    [][\A r \in Runs :
          (/\ run[r].pc = "tools"
           /\ run'[r] # run[r]
           /\ ~(run[r].read_only_intent /\ is_mutating_tool(Head(run[r].tool_calls).name))
           /\ _maker_checker_should_gate(Head(run[r].tool_calls).name, run[r].mcpServer,
                                         run[r].active_profile))
          => LET call == Head(run[r].tool_calls)
                 before == conversation_store[run[r].thread_id]
                 history == conversation_store'[run[r].thread_id]
                 item == Last(maker_checker_requests')
             IN  /\ Len(maker_checker_requests') = Len(maker_checker_requests) + 1
                 /\ SubSeq(maker_checker_requests', 1, Len(maker_checker_requests))
                        = maker_checker_requests
                 /\ item.status = "pending"
                 /\ item.requester_profile = run[r].active_profile
                 /\ item.tool_name = call.name
                 /\ item.tool_args = RepairedArgs(r, call)
                 /\ tool_log' = tool_log
                 /\ \A i \in DOMAIN tool_log :
                        ~(tool_log[i].via = "loop" /\ tool_log[i].call_id = call.id)
                 /\ history = Append(before, Last(history))
                 /\ Last(history).type = "tool"
                 /\ Last(history).tool_call_id = call.id
                 /\ Last(history).request_id = item.request_id]_vars

C10_Witness ==
    /\ Len(maker_checker_requests) = 1
    /\ maker_checker_requests[1].status = "pending"
    /\ tool_log = <<>>
    /\ \E t \in Threads :
           /\ conversation_store[t] # <<>>
           /\ Last(conversation_store[t]).type = "tool"
           /\ Last(conversation_store[t]).kind = "queued"
           /\ Last(conversation_store[t]).request_id = 1

\* C11: an execution of an approved request ends executed exactly when the
\* Tool Executor reported success, and failed otherwise (a failure, an
\* exception, no backend) with a non-empty execution_error; an executed
\* request has no execution_error.
C11_ExecutionOutcome ==
    [][/\ \A id \in Requests :
              LET before == maker_checker_requests[id]
                  after == maker_checker_requests'[id]
              IN  (before.status = "executing" /\ after.status # "executing")
                  => /\ after.status \in {"executed", "failed"}
                     /\ after.status = "executed"
                            <=> \E c \in Clients :
                                    /\ executing[c].pc = "returned"
                                    /\ executing[c].request_id = id
                                    /\ executing[c].result = "ok"
                     /\ after.status = "failed" => after.execution_error # ""
       /\ \A id \in 1..Len(maker_checker_requests') :
              maker_checker_requests'[id].status = "executed"
                  => maker_checker_requests'[id].execution_error = ""]_vars

C11_Witness ==
    \E id \in Requests :
        /\ maker_checker_requests[id].status = "failed"
        /\ maker_checker_requests[id].execution_result = "fail"
        /\ maker_checker_requests[id].execution_error = "Execution failed."

\* C12: after Execute returns, by success, failure or an exception of the
\* executor, the process-wide profile equals the process-wide profile in effect
\* immediately before Execute began, whatever the process-wide profile and the
\* per-client override of the calling client are: the profile Execute saves
\* when it swaps in the checker profile is the process-wide one, and the one it
\* restores when the executor returns is the saved one.
C12_ProfileRestored ==
    [][\A c \in Clients :
          /\ (executing[c].pc = "begun" /\ executing'[c].pc = "running")
                 => executing'[c].previous_profile = AWS_PROFILE
          /\ (executing[c].pc = "running" /\ executing'[c].pc = "returned")
                 => AWS_PROFILE' = executing[c].previous_profile]_vars

\* a client whose override differs from the process-wide profile has executed:
\* the process-wide profile is now the client's override
C12_Witness ==
    \E c \in Clients :
        /\ executing[c].pc = "returned"
        /\ client_active_profiles[c] # ""
        /\ AWS_PROFILE = client_active_profiles[c]
        /\ \E d \in Clients \ {c} :
               client_active_profiles[d] \notin {"", client_active_profiles[c]}

\* C13: at the moment Execute invokes the Tool Executor, the process-wide
\* profile is a checker profile and is not the profile of the request's
\* requester, under every interleaving with the other requests that activate a
\* profile (run, profile switch, direct tool execution).
C13_ExecutesAsChecker ==
    [][\A c \in Clients :
          (executing[c].pc = "begun" /\ executing'[c].pc = "running")
              => /\ _is_checker_profile(AWS_PROFILE')
                 /\ AWS_PROFILE' #
                        maker_checker_requests[executing[c].request_id].requester_profile]_vars

\* an execution was invoked under the profile that asked for the change
C13_Witness ==
    \E i \in 1..Len(tool_log) :
        /\ tool_log[i].via = "maker_checker"
        /\ tool_log[i].aws_profile =
               maker_checker_requests[tool_log[i].request_id].requester_profile

\* C14: in a run whose message has read-only intent, a mutating tool call is
\* not executed, a failed tool result that names the block is appended to the
\* history, no approval request is created, whatever the backend, the role
\* configuration and the active profile are, and the loop goes on with the next
\* call; the Lambda handler blocks the same calls.
C14_ReadOnlyBlocks ==
    [][/\ \A r \in Runs :
              (/\ run[r].pc = "tools"
               /\ run[r].read_only_intent
               /\ Head(run[r].tool_calls).name \in MutatingToolNames
               /\ run'[r] # run[r])
                  => /\ maker_checker_requests' = maker_checker_requests
                     /\ tool_log' = tool_log
                     /\ tfplan' = tfplan
                     /\ \E m \in SeqToSet(conversation_store'[run[r].thread_id]) :
                            /\ conversation_store'[run[r].thread_id] =
                                   Append(conversation_store[run[r].thread_id], m)
                            /\ m.type = "tool"
                            /\ m.kind = "blocked"
                            /\ ~m.success
                            /\ m.tool_call_id = Head(run[r].tool_calls).id
                     /\ run'[r].tool_calls = Tail(run[r].tool_calls)
                     /\ run'[r].pc \in {"tools", "llm", "finished"}
       /\ \A t \in MutatingToolNames, d \in BOOLEAN, a \in BOOLEAN :
              lambda_tool_result(TRUE, t, d, a) = "blocked"]_vars

\* a read-only run on the gated backend, under a profile that is no checker,
\* got its mutating call blocked
C14_Witness ==
    \E r \in Runs :
        /\ run[r].read_only_intent
        /\ run[r].mcpServer = "aws_terraform"
        /\ ~_is_checker_profile(run[r].active_profile)
        /\ \E m \in SeqToSet(conversation_store[run[r].thread_id]) :
               m.type = "tool" /\ m.kind = "blocked"
        /\ maker_checker_requests = <<>>
        /\ tool_log = <<>>

\* the ids of the tool messages of a history that answer a call of the LLM
\* response at position k, in the order of the history
AnswersAfter(history, k) ==
    LET answers(m) ==
            /\ m.type = "tool"
            /\ \E i \in 1..Len(history[k].tool_calls) :
                   history[k].tool_calls[i].id = m.tool_call_id
        found == SelectSeq(history, answers)
    IN  [i \in DOMAIN found |-> found[i].tool_call_id]

\* the ids of the calls of a turn that are the first of their signature
FirstOfSignature(tool_calls) ==
    LET firsts == Dedupe(tool_calls)
    IN  [i \in DOMAIN firsts |-> firsts[i].id]

IsPrefix(s, t) == Len(s) <= Len(t) /\ \A i \in 1..Len(s) : s[i] = t[i]

\* C15: within one LLM turn of the loop, of the tool calls with the same name
\* and the same arguments only one is executed, gated or blocked, and the calls
\* of distinct signatures are processed once each in their original order: the
\* tool results that follow an LLM response answer the first call of each
\* signature, in the order of the response.
C15_DuplicateCallsOnce ==
    \A t \in Threads :
        \A k \in 1..Len(conversation_store[t]) :
            conversation_store[t][k].type = "ai"
                => IsPrefix(AnswersAfter(conversation_store[t], k),
                            FirstOfSignature(conversation_store[t][k].tool_calls))

\* the CLI executed the same call twice in one turn
C15_Witness ==
    \E i, j \in 1..Len(tool_log) :
        /\ i < j
        /\ tool_log[i].via = "cli" /\ tool_log[j].via = "cli"
        /\ tool_log[i].tool_name = tool_log[j].tool_name
        /\ tool_log[i].tool_args = tool_log[j].tool_args
        /\ tool_log[i].call_id[2] = tool_log[j].call_id[2]

\* the result the step of run r appends to the history of its thread
Answer(r) == Last(conversation_store'[run[r].thread_id])

\* C16: the read-only guard and the maker-checker gate classify every tool
\* name alike, a tool being mutating exactly when its name starts with create_
\* or is terraform_plan, terraform_apply or terraform_destroy: a call of a
\* read-only run is blocked exactly when the tool is mutating, and a call of
\* any other run on aws_terraform under a profile that is no checker is queued
\* for approval exactly when the tool is mutating, so no tool is blocked by
\* the one and let through ungated by the other.
C16_GuardAndGateAgree ==
    [][\A r \in Runs :
          (run[r].pc = "tools" /\ run'[r] # run[r])
              => LET tool_name == Head(run[r].tool_calls).name
                 IN  /\ run[r].read_only_intent
                            => (Answer(r).kind = "blocked"
                                    <=> tool_name \in MutatingToolNames)
                     /\ (/\ ~run[r].read_only_intent
                         /\ run[r].mcpServer = "aws_terraform"
                         /\ ~_is_checker_profile(run[r].active_profile))
                            => (Answer(r).kind = "queued"
                                    <=> tool_name \in MutatingToolNames)]_vars

\* a tool whose name only contains create_ went to the executor for a maker,
\* and a run was blocked
C16_Witness ==
    /\ \E i \in 1..Len(tool_log) :
           /\ tool_log[i].tool_name = "recreate_stack"
           /\ ~_is_checker_profile(tool_log[i].actor)
    /\ maker_checker_requests = <<>>

\* the messages that, read without regard to case, contain a read-only
\* keyword (summarize, list, list, list, show, what resources, inventory)
WithReadOnlyKeyword ==
    {"Summarize resources", "List EC2", "list then delete", "my playlist",
     "SPIN UP and show", "WHAT RESOURCES", "deployed inventory"}

\* the messages that contain a mutating keyword (create, delete, spin up, deploy)
WithMutatingKeyword ==
    {"Create a VPC", "list then delete", "SPIN UP and show", "deployed inventory"}

\* C17: the intent of a message is read-only exactly when the lower-cased
\* message contains at least one read-only keyword and no mutating keyword; it
\* is not read-only when a mutating keyword is present nor when the message
\* has no keyword of either set.
C17_ReadOnlyIntentIff ==
    \A r \in Runs :
        (run[r].pc # "idle" /\ run[r].message \in PolicyMessages)
            => (run[r].read_only_intent
                    <=> /\ run[r].message \in WithReadOnlyKeyword
                        /\ run[r].message \notin WithMutatingKeyword)

\* an upper-case message with a two-word read-only keyword was found read-only
C17_Witness ==
    \E r \in Runs :
        /\ run[r].message = "WHAT RESOURCES"
        /\ run[r].read_only_intent
        /\ run[r].pc = "tools"

\* the step added one comment with the given text at the end of the thread of
\* request id and left its status, tool, arguments, approval fields and
\* execution fields as they were
CommentAppended(id, text) ==
    LET before == maker_checker_requests[id]
        after == maker_checker_requests'[id]
    IN  /\ last_response' = Response("comment", "")
        /\ Len(after.comments) = Len(before.comments) + 1
        /\ SubSeq(after.comments, 1, Len(before.comments)) = before.comments
        /\ Last(after.comments).message = text
        /\ after.status = before.status
        /\ after.tool_name = before.tool_name
        /\ after.tool_args = before.tool_args
        /\ after.approval_notes = before.approval_notes
        /\ after.approved_at = before.approved_at
        /\ after.rejected_at = before.rejected_at
        /\ after.executed_at = before.executed_at
        /\ after.execution_result = before.execution_result
        /\ after.execution_error = before.execution_error

\* C18 as stated: add-comment with a non-empty message on an existing request
\* succeeds in every status, appends exactly one comment at the end of the
\* comments and leaves status, tool name, tool arguments, approval fields and
\* execution fields unchanged.
C18_NonEmptyCommentAppends ==
    [][\A c \in Clients, id \in Requests, m \in CommentMessages :
          (m # "" /\ maker_checker_add_comment(c, id, m))
              => CommentAppended(id, strip(m))]_vars

\* C18 amended: add-comment with a message that is not empty once the
\* surrounding whitespace is stripped succeeds on an existing request in every
\* status, appends exactly one comment, holding the stripped message, at the
\* end of the comments and leaves status, tool name, tool arguments, approval
\* fields and execution fields unchanged.
C18_NonBlankCommentAppends ==
    [][\A c \in Clients, id \in Requests, m \in CommentMessages :
          (strip(m) # "" /\ maker_checker_add_comment(c, id, m))
              => CommentAppended(id, strip(m))]_vars

\* a comment was added to a request that had been executed, after the message
\* of its requester
C18_Witness ==
    \E id \in Requests :
        /\ maker_checker_requests[id].status = "executed"
        /\ last_response = Response("comment", "")
        /\ Len(maker_checker_requests[id].comments) = 2
        /\ maker_checker_requests[id].comments[1].message = "create vpc"
        /\ maker_checker_requests[id].comments[2].message = "ok"

\* a request without its comment thread and its updated_at stamp
WithoutThread(item) == [item EXCEPT !.comments = <<>>, !.updated_at = 0]

\* C19: once a request is rejected or executed, no operation (approve,
\* reject, execute, comment, role update, a run) changes any of its fields
\* other than by appending to its comments and stamping updated_at with the
\* comment; the comments it has are neither modified nor removed.
C19_DecidedIsImmutable ==
    [][\A id \in Requests :
          LET before == maker_checker_requests[id]
              after == maker_checker_requests'[id]
          IN  before.status \in {"rejected", "executed"}
                  => /\ Len(maker_checker_requests') >= id
                     /\ WithoutThread(after) = WithoutThread(before)
                     /\ IsPrefix(before.comments, after.comments)
                     /\ after.updated_at # before.updated_at
                            => Len(after.comments) = Len(before.comments) + 1]_vars

\* an executed request got a comment, under a role configuration changed
\* since its creation
C19_Witness ==
    \E id \in Requests :
        /\ maker_checker_requests[id].status = "executed"
        /\ maker_checker_requests[id].checker_profiles # maker_checker_roles.checker_profiles
        /\ last_response = Response("comment", "")
        /\ Len(maker_checker_requests[id].comments) = 2

\* C20: the store only grows: a request that is in the store stays in it,
\* with the same request_id, requester_profile, tool name and tool arguments,
\* whatever operation is performed.
C20_StoreOnlyGrows ==
    [][/\ Len(maker_checker_requests') >= Len(maker_checker_requests)
       /\ \A id \in Requests :
              LET before == maker_checker_requests[id]
                  after == maker_checker_requests'[id]
              IN  /\ after.request_id = before.request_id
                  /\ after.requester_profile = before.requester_profile
                  /\ after.tool_name = before.tool_name
                  /\ after.tool_args = before.tool_args]_vars

\* a request that was approved and failed in execution, with a comment by a
\* profile other than its requester, is still in the store as it was created
C20_Witness ==
    \E id \in Requests :
        /\ maker_checker_requests[id].status = "failed"
        /\ maker_checker_requests[id].request_id = id
        /\ maker_checker_requests[id].tool_name = "create_s3_bucket"
        /\ Len(maker_checker_requests[id].comments) = 2
        /\ Last(maker_checker_requests[id].comments).author_profile #
               maker_checker_requests[id].requester_profile

\* the positions of the three loops
LlmPositions == {"llm", "cli_llm", "lambda_llm"}

ToolPositions == {"tools", "cli_tools", "lambda_tools"}

EndPositions ==
    {"finished", "failed", "cli_done", "cli_exhausted", "lambda_returned", "lambda_500"}

\* the most tool calls a turn of any loop holds
TurnWidth == MaxCallsPerTurn + CliMaxCalls

\* what is left of a run: the turns up to the cap, and within a turn the LLM
\* invocation before its tool calls
Rank(locals) ==
    IF locals.pc \in LlmPositions
    THEN (max_iterations - locals.iteration) * (TurnWidth + 2)
    ELSE IF locals.pc \in ToolPositions
    THEN (max_iterations - locals.iteration) * (TurnWidth + 2) - (TurnWidth + 1)
             + Len(locals.tool_calls)
    ELSE 0

\* C21: every run of the loop ends after at most 5 LLM invocations, whatever
\* the LLM returns: the LLM is invoked only while fewer than 5 turns are
\* counted, an invocation is followed by its tool calls or by the end of the
\* run, every turn with tool calls is counted before the next invocation, and
\* every step of a run brings it nearer to its end, after which it takes no
\* step.
C21_LoopTerminates ==
    [][\A r \in Runs :
          /\ run[r].iteration <= max_iterations
          /\ (run[r].pc \in LlmPositions /\ run'[r] # run[r])
                 => /\ run[r].iteration < max_iterations
                    /\ run'[r].pc \in ToolPositions \cup EndPositions
          /\ (run[r].pc \in ToolPositions /\ run'[r].pc \in LlmPositions)
                 => run'[r].iteration = run[r].iteration + 1
          /\ (run[r].pc # "idle" /\ run'[r] # run[r])
                 => /\ Rank(run[r]) > 0
                    /\ Rank(run'[r]) >= 0
                    /\ Rank(run'[r]) < Rank(run[r])]_vars

\* a run of the server ended at the cap, after five LLM responses that all
\* asked for a tool
C21_Witness ==
    \E r \in Runs :
        /\ run[r].pc = "finished"
        /\ run[r].iteration = max_iterations
        /\ Cardinality({k \in 1..Len(conversation_store[run[r].thread_id]) :
               /\ conversation_store[run[r].thread_id][k].type = "ai"
               /\ conversation_store[run[r].thread_id][k].tool_calls # <<>>}) = max_iterations

\* the runs of the AG-UI server and of the CLI that left the loop by the cap:
\* the turn counted last was a turn of tool calls
CapPositions == {"finished", "failed", "cli_done", "cli_exhausted"}

LastAi(history) ==
    LET ks == {k \in 1..Len(history) : history[k].type = "ai"}
    IN  history[CHOOSE k \in ks : \A j \in ks : j <= k]

\* C22: a run of the AG-UI server or of the CLI that reaches the iteration cap
\* while the LLM still asks for tools ends without an error and with a final
\* answer delivered: the text of the last LLM response, or a non-empty
\* synthetic text when that text is empty.
C22_CapDeliversAnswer ==
    \A r \in Runs :
        (run[r].pc \in CapPositions /\ run[r].iteration = max_iterations)
            => /\ run[r].pc \in {"finished", "cli_done"}
               /\ run[r].response_text # ""
               /\ LastAi(conversation_store[run[r].thread_id]).content # ""
                      => run[r].response_text =
                             LastAi(conversation_store[run[r].thread_id]).content

\* the AG-UI server alone: the same statement for a run of stream()
C22_ServerCapDeliversAnswer ==
    \A r \in Runs :
        (run[r].pc \in {"finished", "failed"} /\ run[r].iteration = max_iterations)
            => /\ run[r].pc = "finished"
               /\ run[r].response_text # ""
               /\ LastAi(conversation_store[run[r].thread_id]).content # ""
                      => run[r].response_text =
                             LastAi(conversation_store[run[r].thread_id]).content

\* the CLI has left its loop at the cap after five turns of tool calls
C22_Witness ==
    \E r \in Runs :
        /\ run[r].pc = "cli_exhausted"
        /\ run[r].iteration = max_iterations
        /\ LastAi(conversation_store[run[r].thread_id]).tool_calls # <<>>

\* the execution of the turn's first call returned success=false or raised
ServerToolFailed(r) ==
    \E o \in {"fail", "raise"}, render \in Renders : tool_call_step(r, o, render)

CliToolFailed(r) == \E o \in {"fail", "raise"} : interactive_loop_tool_call(r, o)

LambdaToolFailed(r) == \E o \in {"fail", "raise"} : lambda_tool_call(r, o)

\* after the step the failure is the last message of the history, the rest of
\* the turn's calls is what is left to process, and after the last call the
\* turn is counted and the LLM is invoked again unless the cap ends the loop
FailureRecorded(r) ==
    LET tool_call == Head(run[r].tool_calls)
        rest == Tail(run[r].tool_calls)
        before == conversation_store[run[r].thread_id]
        history == conversation_store'[run[r].thread_id]
    IN  /\ Len(history) = Len(before) + 1
        /\ SubSeq(history, 1, Len(before)) = before
        /\ Last(history).type = "tool"
        /\ Last(history).tool_call_id = tool_call.id
        /\ ~Last(history).success
        /\ run'[r].pc \notin {"failed", "lambda_500"}
        /\ run'[r].tool_calls = rest
        /\ IF rest # <<>>
           THEN run'[r].pc = run[r].pc /\ run'[r].iteration = run[r].iteration
           ELSE /\ run'[r].iteration = run[r].iteration + 1
                /\ IF run'[r].iteration < max_iterations
                   THEN run'[r].pc \in LlmPositions
                   ELSE run'[r].pc \in EndPositions

\* C23: a tool execution that returns success=false or raises never aborts
\* the run, in the AG-UI server, the CLI and the Lambda handler: the failed
\* result of the call is appended to the history, the remaining calls of the
\* turn are still to be processed, and after the last of them the loop goes to
\* the next LLM invocation (or ends by the cap).
C23_FailedToolContinues ==
    [][\A r \in Runs :
          (ServerToolFailed(r) \/ CliToolFailed(r) \/ LambdaToolFailed(r))
              => FailureRecorded(r)]_vars

\* the same for the loops that wrap the execution in a try: server and CLI
C23_CaughtFailureContinues ==
    [][\A r \in Runs :
          (ServerToolFailed(r) \/ CliToolFailed(r)) => FailureRecorded(r)]_vars

\* the Lambda handler has answered 500 after an execution, with the call of
\* that execution left unanswered in the messages
C23_Witness ==
    \E r \in Runs :
        /\ run[r].pc = "lambda_500"
        /\ tool_log # <<>>
        /\ Last(tool_log).call_id = Head(run[r].tool_calls).id
        /\ \A k \in 1..Len(conversation_store[LambdaThread]) :
               conversation_store[LambdaThread][k].type = "tool"
                   => conversation_store[LambdaThread][k].tool_call_id
                          # Head(run[r].tool_calls).id

\* the server has recorded an exception of the first call and processed the
\* second call of the turn
C23_ServerWitness ==
    \E r \in Runs :
        /\ run[r].pc = "llm"
        /\ run[r].iteration = 1
        /\ \E k \in 1..Len(conversation_store[run[r].thread_id]) - 1 :
               /\ conversation_store[run[r].thread_id][k].type = "tool"
               /\ conversation_store[run[r].thread_id][k].kind = "error"
               /\ conversation_store[run[r].thread_id][k + 1].type = "tool"

\* the requests whose exception is the recognised limitation of the provider,
\* text by text
RecognisedLimitation(provider, mcpServer, err_text) ==
    /\ provider = "perplexity"
    /\ mcpServer = "aws_terraform"
    /\ err_text \in {"Tool calling is not supported for this model",
                     "Error code: 400 - Tool calling is not supported for this model."}

Count(events, e) == Cardinality({k \in 1..Len(events) : events[k] = e})

\* C24: when the LLM invocation raises, the run ends with exactly one
\* RUN_ERROR and no RUN_FINISHED and executes no further tool; when the
\* exception is the recognised limitation (provider perplexity, an MCP server
\* selected, the provider's text about tool calling) the loop stops, no tool is
\* executed, and the fixed guidance text is delivered as a normal final answer
\* with RUN_FINISHED. An ended run executes nothing and emits nothing more.
C24_LlmFailureEndsRun ==
    [][\A r \in Runs :
          /\ \A provider \in Providers, err_text \in LlmErrors :
                llm_invoke_raises(r, provider, err_text)
                    => /\ tool_log' = tool_log
                       /\ IF RecognisedLimitation(provider, run[r].mcpServer, err_text)
                          THEN /\ run'[r].pc = "finished"
                               /\ run'[r].response_text = PerplexityGuidance
                               /\ Last(run'[r].events) = "RUN_FINISHED"
                               /\ Count(run'[r].events, "RUN_FINISHED") = 1
                               /\ Count(run'[r].events, "RUN_ERROR") = 0
                          ELSE /\ run'[r].pc = "failed"
                               /\ Last(run'[r].events) = "RUN_ERROR"
                               /\ Count(run'[r].events, "RUN_ERROR") = 1
                               /\ Count(run'[r].events, "RUN_FINISHED") = 0
          /\ run[r].pc \in {"failed", "finished"}
                => /\ run'[r] = run[r]
                   /\ \A k \in (Len(tool_log) + 1)..Len(tool_log') :
                          tool_log'[k].run_id # r]_vars

\* a run has failed in its second LLM invocation, after a tool was executed
C24_Witness ==
    \E r \in Runs :
        /\ run[r].pc = "failed"
        /\ run[r].iteration = 1
        /\ run[r].events = <<"RUN_STARTED", "TEXT_MESSAGE_START", "TOOL_RESULT", "RUN_ERROR">>
        /\ \E k \in 1..Len(tool_log) : tool_log[k].run_id = r

\* a run has ended with the guidance text
C24_GuidanceWitness ==
    \E r \in Runs :
        /\ run[r].pc = "finished"
        /\ run[r].response_text = PerplexityGuidance
        /\ run[r].events[1] = "RUN_STARTED"
        /\ Count(run[r].events, "TEXT_MESSAGE_CONTENT") = 4
        /\ Last(run[r].events) = "RUN_FINISHED"
        /\ Last(conversation_store[run[r].thread_id]) = AIMessage("", <<>>)

\* the projects of the workspace by their full names
FullProjectNames == {"s3_b1", "s3_b2", "ec2_t2.micro_us-east-1"}

MissingPlanErrors ==
    {"No tfplan file found for project",
     "No tfplan file found. Please run terraform_plan first."}

\* what the claim asks of the result of an apply of project
AppliedWithPlanCheck(project, auto_approve) ==
    /\ (project \notin tfplan /\ ~auto_approve)
           => /\ ~tool_result'.success
              /\ ~tool_result'.ran
              /\ tool_result'.error \in MissingPlanErrors
              /\ tfplan # {}
                     => /\ tool_result'.named # <<>>
                        /\ SeqToSet(tool_result'.named) = tfplan
    /\ project \in tfplan
           => /\ tool_result'.ran
              /\ tool_result'.error \notin MissingPlanErrors

\* C25: terraform_apply through the executor, for a project without a plan
\* artifact and without auto-approve, fails without running Terraform, and
\* when other projects of the workspace have a plan artifact the error names
\* them; an apply of a project whose plan artifact exists is not rejected for a
\* missing plan.
C25_ApplyNamesPlannedProjects ==
    [][\A project \in FullProjectNames, auto_approve \in BOOLEAN, o \in Outcomes :
          _terraform_apply(project, auto_approve, o)
              => AppliedWithPlanCheck(project, auto_approve)]_vars

\* the same for apply of the packaged TerraformManager
C25_PackagedApplyNamesPlannedProjects ==
    [][\A project \in FullProjectNames, auto_approve \in BOOLEAN, o \in Outcomes :
          aws_terraform_apply(project, auto_approve, o)
              => AppliedWithPlanCheck(project, auto_approve)]_vars

\* the executor has refused an apply for a missing plan, naming no project,
\* while another project has a plan
C25_Witness ==
    /\ tool_result.tool = "terraform_apply"
    /\ tool_result.error = "No tfplan file found. Please run terraform_plan first."
    /\ tool_result.project_name \in workspace \ tfplan
    /\ tool_result.named = <<>>
    /\ tfplan # {}

\* the required arguments of the two handlers, as the unit tests of the
\* follow-up questions name them
RequiredArguments(tool) ==
    IF tool = "create_s3_bucket" THEN {"bucket_name", "region"} ELSE {"region"}

AbsentArguments(tool, params) ==
    {field \in RequiredArguments(tool) : params[field] \in {None, ""}}

\* what the claim asks of a call with required arguments absent
AskedForMissing(tool, params) ==
    AbsentArguments(tool, params) # {}
        => /\ ~tool_result'.success
           /\ "missing_fields" \in tool_result'.keys
           /\ "questions" \in tool_result'.keys
           /\ SeqToSet(tool_result'.missing_fields) = AbsentArguments(tool, params)
           /\ Len(tool_result'.questions) = Cardinality(AbsentArguments(tool, params))
           /\ workspace' = workspace

\* C26: a provisioning handler called with required arguments absent returns
\* success=false with missing_fields naming every absent required field and
\* questions with one question for each, and creates no Terraform project
\* (create_s3_bucket without arguments: bucket_name and region;
\* create_ec2_instance without arguments: region).
C26_MissingFieldsAsked ==
    [][\A permitted \in BOOLEAN, o \in Outcomes :
          /\ \A params \in S3Params :
                _create_s3_bucket(params, permitted, o)
                    => AskedForMissing("create_s3_bucket", params)
          /\ \A params \in Ec2Params :
                _create_ec2_instance(params, permitted, o)
                    => AskedForMissing("create_ec2_instance", params)]_vars

\* what does hold: create_s3_bucket without a bucket name fails and creates
\* no project
C26_BucketNameRequired ==
    [][\A permitted \in BOOLEAN, o \in Outcomes, params \in S3Params :
          (_create_s3_bucket(params, permitted, o) /\ params.bucket_name \in {None, ""})
              => /\ ~tool_result'.success
                 /\ tool_result'.error = "bucket_name is required"
                 /\ workspace' = workspace]_vars

\* create_ec2_instance was called without a region and has created the
\* project of the default region
C26_Witness ==
    /\ tool_result.tool = "create_ec2_instance"
    /\ tool_result.success
    /\ tool_result.project_name = "ec2_t2.micro_us-east-1"
    /\ "ec2_t2.micro_us-east-1" \in workspace
    /\ "missing_fields" \notin tool_result.keys

\* the audit of the log as it is
AuditRows == _collect_audit_entries(workflow_log, maker_checker_requests, AuditLimit)

\* the rows made from the record at place j of the log
RowsOf(j) ==
    {k \in 1..Len(AuditRows) : ~AuditRows[k].maker_checker /\ AuditRows[k].timestamp = j}

\* the tools of the log that the audit classification takes for mutating,
\* one by one
AuditedTools == {"terraform_apply", "review_ecs_deployment_workflow"}

\* the started event at i and the completed event at j belong to one call,
\* and the call was not started again in between
StartedThenCompleted(i, j) ==
    /\ i < j
    /\ workflow_log[i].event_type = "tool_execution_started"
    /\ workflow_log[j].event_type = "tool_execution_completed"
    /\ workflow_log[i].run_id = workflow_log[j].run_id
    /\ workflow_log[i].tool_call_id = workflow_log[j].tool_call_id
    /\ workflow_log[i].tool_name \in AuditedTools
    /\ workflow_log[j].tool_name \in AuditedTools
    /\ \A m \in (i + 1)..(j - 1) :
           ~ /\ workflow_log[m].event_type = "tool_execution_started"
             /\ workflow_log[m].run_id = workflow_log[i].run_id
             /\ workflow_log[m].tool_call_id = workflow_log[i].tool_call_id

\* C27: for every log in which a tool_execution_started event of a mutating
\* tool is followed by a tool_execution_completed event with the same
\* (run_id, tool_call_id), the audit has one entry for the call, with the
\* tool_args of the started event and the status success exactly when the
\* completed event reports success and failed otherwise, whatever events of
\* other runs or other calls lie between the two.
C27_AuditJoin ==
    \A i \in 1..Len(workflow_log), j \in 1..Len(workflow_log) :
        StartedThenCompleted(i, j)
            => /\ Cardinality(RowsOf(j)) = 1
               /\ \A k \in RowsOf(j) :
                      /\ AuditRows[k].tool_args = workflow_log[i].tool_args
                      /\ AuditRows[k].run_id = workflow_log[j].run_id
                      /\ AuditRows[k].action = workflow_log[j].tool_name
                      /\ AuditRows[k].status = "success" <=> workflow_log[j].success
                      /\ AuditRows[k].status = "failed" <=> ~workflow_log[j].success

\* a call was started, another call of the same run was started with other
\* arguments, and the first call completed
C27_Witness ==
    /\ Len(workflow_log) = 3
    /\ StartedThenCompleted(1, 3)
    /\ workflow_log[2].event_type = "tool_execution_started"
    /\ workflow_log[2].run_id = workflow_log[1].run_id
    /\ workflow_log[2].tool_args # workflow_log[1].tool_args
    /\ Len(AuditRows) = 1
    /\ AuditRows[1].tool_args = workflow_log[1].tool_args

\* C28: the audit has no row made from a log event whose tool the audit
\* classification (is_mutating_tool and the audit's allow-list) does not take
\* for mutating, and exactly one row for every completed, failed or blocked
\* event of a tool it does.
C28_OnlyMutatingAudited ==
    /\ \A k \in 1..Len(AuditRows) :
           ~AuditRows[k].maker_checker
               => /\ AuditRows[k].timestamp \in 1..Len(workflow_log)
                  /\ workflow_log[AuditRows[k].timestamp].tool_name \in AuditedTools
                  /\ AuditRows[k].action = workflow_log[AuditRows[k].timestamp].tool_name
    /\ \A j \in 1..Len(workflow_log) :
           IF /\ workflow_log[j].event_type \in
                     {"tool_execution_completed", "tool_execution_failed",
                      "tool_execution_blocked"}
              /\ workflow_log[j].tool_name \in AuditedTools
           THEN Cardinality(RowsOf(j)) = 1
           ELSE RowsOf(j) = {}

\* a read-only tool completed, a tool of the allow-list completed and a
\* mutating tool was blocked: two rows
C28_Witness ==
    /\ Len(workflow_log) = 3
    /\ workflow_log[1].event_type = "tool_execution_completed"
    /\ workflow_log[1].tool_name = "list_aws_resources"
    /\ workflow_log[2].event_type = "tool_execution_completed"
    /\ workflow_log[2].tool_name = "review_ecs_deployment_workflow"
    /\ workflow_log[3].event_type = "tool_execution_blocked"
    /\ workflow_log[3].tool_name = "terraform_apply"
    /\ Len(AuditRows) = 2
    /\ AuditRows[1].status = "blocked"
    /\ AuditRows[2].action = "review_ecs_deployment_workflow"

\* ---------------------------------------------------------------- C29
EcsStringKeys ==
    {"region", "cluster_name", "service_name", "container_image",
     "execution_role_arn", "task_role_arn"}

\* the required fields of a configuration that are None, a blank string or
\* an empty list
UnsetFields(config) ==
    {key \in EcsStringKeys : config[key] \in {None, "", " "}}
    \cup {key \in EcsListKeys : config[key] = <<>>}

\* the configuration a start with these params begins with
StartedWith(params) ==
    [region |-> IF "region" \in DOMAIN params /\ params.region \notin {None, ""}
                THEN params.region ELSE "us-east-1",
     cluster_name |-> IF "cluster_name" \in DOMAIN params THEN params.cluster_name ELSE None,
     service_name |-> IF "service_name" \in DOMAIN params THEN params.service_name ELSE None,
     container_image |-> IF "container_image" \in DOMAIN params
                         THEN params.container_image ELSE None,
     execution_role_arn |-> IF "execution_role_arn" \in DOMAIN params
                            THEN params.execution_role_arn ELSE None,
     task_role_arn |-> IF "task_role_arn" \in DOMAIN params
                       THEN params.task_role_arn ELSE None,
     subnet_ids |-> IF "subnet_ids" \in DOMAIN params THEN params.subnet_ids ELSE <<>>,
     security_group_ids |-> IF "security_group_ids" \in DOMAIN params
                            THEN params.security_group_ids ELSE <<>>,
     desired_count |-> 1]

\* what the configuration of a workflow is after an update with these params
Accumulated(config, params) ==
    [key \in DOMAIN config |->
        IF key \in DOMAIN params /\ (key \notin EcsStringKeys \/ params[key] # None)
        THEN params[key] ELSE config[key]]

\* the answer of a start or an update: the workflow it names holds config,
\* missing_fields lists the unset fields of config, and ready_to_create says
\* that none is unset and the preflight found the prerequisites valid
EcsAnswered(workflow_id, config, valid) ==
    /\ tool_result'.success
    /\ tool_result'.workflow_id = workflow_id
    /\ workflow_id \in DOMAIN ecs_workflows'
    /\ ecs_workflows'[workflow_id].config = config
    /\ {tool_result'.missing_fields[i] : i \in DOMAIN tool_result'.missing_fields}
           = UnsetFields(config)
    /\ tool_result'.ready_to_create <=> (UnsetFields(config) = {} /\ valid)

C29_UnknownWitness ==
    /\ Len(ecs_workflows) = 1
    /\ tool_result.tool = "update_ecs_deployment_workflow"
    /\ ~tool_result.success
    /\ tool_result.workflow_id = 2
    /\ UnsetFields(ecs_workflows[1].config) # {}

\* ---------------------------------------------------------------- C30
\* the configuration create_ecs_service is called for: the named workflow's,
\* or the one the params give when no workflow is named
CreatedFrom(params) ==
    IF params.workflow_id # 0 THEN ecs_workflows[params.workflow_id].config
    ELSE StartedWith(params)

\* the call failed and made no project: no directory, no terraform init
NothingMaterialized ==
    /\ ~tool_result'.success
    /\ ~tool_result'.ran
    /\ workspace' = workspace

\* C30: create_ecs_service fails with success=false and materializes no
\* Terraform project (no project directory is written, terraform init is not
\* run) whenever the configuration has a missing required field or its
\* preflight validation is invalid.
C30_CreateBlocked ==
    [][\A params \in EcsCreateParams, permitted \in BOOLEAN, valid \in BOOLEAN,
          o \in {"ok", "fail"} :
          (/\ _create_ecs_service(params, permitted, valid, o)
           /\ params.workflow_id \in DOMAIN ecs_workflows \cup {0}
           /\ UnsetFields(CreatedFrom(params)) # {} \/ ~valid)
             => NothingMaterialized]_vars

\* a complete workflow was refused by the preflight and nothing was created
C30_Witness ==
    /\ Len(ecs_workflows) = 1
    /\ UnsetFields(ecs_workflows[1].config) = {}
    /\ tool_result.tool = "create_ecs_service"
    /\ tool_result.workflow_id = 1
    /\ ~tool_result.success
    /\ tool_result.preflight = "invalid"
    /\ workspace = {}

\* a workflow with a field still unset was refused and nothing was created
C30_MissingWitness ==
    /\ Len(ecs_workflows) = 1
    /\ UnsetFields(ecs_workflows[1].config) # {}
    /\ tool_result.tool = "create_ecs_service"
    /\ tool_result.workflow_id = 1
    /\ ~tool_result.success
    /\ tool_result.missing_fields # <<>>
    /\ workspace = {}

\* ---------------------------------------------------------------- C31
\* this step is the approval of request id by client c
ApprovedBy(c, id) ==
    /\ approve_maker_checker_request(c, id, "")
    /\ id \in DOMAIN maker_checker_requests
    /\ maker_checker_requests[id].status = "pending"
    /\ maker_checker_requests'[id].status = "approved"

\* C31: a profile that originated a gated request is never the profile that
\* approves it: in every approval the approving profile differs from the
\* request's requester_profile, whatever runs, profile switches and role
\* updates came before.
C31_ApproverIsNotRequester ==
    [][\A c \in OneClient, id \in RequestIds :
          ApprovedBy(c, id)
             => _current_profile(c) # maker_checker_requests[id].requester_profile]_vars

\* a request stands approved while its requester is a checker
C31_Witness ==
    \E id \in DOMAIN maker_checker_requests :
       /\ maker_checker_requests[id].status = "approved"
       /\ _is_checker_profile(maker_checker_requests[id].requester_profile)

\* ---------------------------------------------------------------- C32
\* the started event at i and the failed event at j belong to one call, and
\* the call was not started again in between
StartedThenFailed(i, j) ==
    /\ i < j
    /\ workflow_log[i].event_type = "tool_execution_started"
    /\ workflow_log[j].event_type = "tool_execution_failed"
    /\ workflow_log[i].run_id = workflow_log[j].run_id
    /\ workflow_log[i].tool_call_id = workflow_log[j].tool_call_id
    /\ workflow_log[i].tool_name \in AuditedTools
    /\ workflow_log[j].tool_name = workflow_log[i].tool_name
    /\ \A m \in (i + 1)..(j - 1) :
           ~ /\ workflow_log[m].event_type = "tool_execution_started"
             /\ workflow_log[m].run_id = workflow_log[i].run_id
             /\ workflow_log[m].tool_call_id = workflow_log[i].tool_call_id

\* the blocked event at i + 1 is the one the read-only guard writes for the
\* call whose started event is at i: the next record, same run, same tool
StartedThenBlocked(i) ==
    /\ i + 1 <= Len(workflow_log)
    /\ workflow_log[i].event_type = "tool_execution_started"
    /\ workflow_log[i + 1].event_type = "tool_execution_blocked"
    /\ workflow_log[i].run_id = workflow_log[i + 1].run_id
    /\ workflow_log[i].tool_name \in AuditedTools
    /\ workflow_log[i + 1].tool_name = workflow_log[i].tool_name

\* the one row made from the event at j carries these arguments
RowCarries(j, tool_args) ==
    /\ Cardinality(RowsOf(j)) = 1
    /\ \A k \in RowsOf(j) : AuditRows[k].tool_args = tool_args

\* C32 (failed events): the row of a tool_execution_failed event that follows
\* the started event of its call carries the arguments of the started event.
C32_FailedCarriesArgs ==
    \A i \in 1..Len(workflow_log), j \in 1..Len(workflow_log) :
        StartedThenFailed(i, j) => RowCarries(j, workflow_log[i].tool_args)

\* C32: the audit row of a tool_execution_blocked or tool_execution_failed
\* event that follows the tool_execution_started event of the same call in
\* the same run carries the arguments recorded in the started event.
C32_BlockedCarriesArgs ==
    /\ C32_FailedCarriesArgs
    /\ \A i \in 1..Len(workflow_log) :
           StartedThenBlocked(i) => RowCarries(i + 1, workflow_log[i].tool_args)

\* a call was started and blocked, and its row has no arguments
C32_Witness ==
    /\ Len(workflow_log) >= 2
    /\ StartedThenBlocked(1)
    /\ RowsOf(2) # {}
    /\ \A k \in RowsOf(2) : AuditRows[k].tool_args = NoArgs /\ AuditRows[k].status = "blocked"

\* ---------------------------------------------------------------- C33
\* every entry of before is in after at its place, unchanged
KeptIn(before, after) ==
    /\ Len(before) <= Len(after)
    /\ \A i \in 1..Len(before) : after[i] = before[i]

\* after is before with the content of its trailing user message replaced
TrailingUserReplaced(before, after) ==
    /\ before # <<>>
    /\ before[Len(before)].type = "human"
    /\ Len(after) = Len(before)
    /\ after[Len(after)].type = "human"
    /\ \A i \in 1..(Len(before) - 1) : after[i] = before[i]

\* a message arrives in this step: a request of the thread starts
Arrives(t) ==
    \E r \in Runs : run[r].pc = "idle" /\ run'[r].pc # "idle" /\ run'[r].thread_id = t

\* the first entry is the system prompt and no user message follows a user
\* message
WellFormedHistory(history) ==
    /\ history # <<>> => history[1] = [type |-> "system"]
    /\ \A i \in 1..(Len(history) - 1) :
           ~(history[i].type = "human" /\ history[i + 1].type = "human")

\* C33: the history of a thread is append-only across runs: an entry is never
\* removed, moved or changed, except that a message arriving while the last
\* entry is a user message replaces the content of that entry instead of
\* adding a second one; the first entry is always the system prompt and no
\* two user messages are consecutive.
C33_HistoryAppendOnly ==
    [][\A t \in Threads :
          LET before == conversation_store[t]
              after == conversation_store'[t]
          IN  /\ WellFormedHistory(after)
              /\ IF Arrives(t) /\ before # <<>> /\ before[Len(before)].type = "human"
                 THEN TrailingUserReplaced(before, after)
                 ELSE KeptIn(before, after)]_vars

\* a thread whose first run was answered and whose second run failed before
\* any answer: its history ends with the unanswered user message, and the
\* next request of the thread is free to arrive
C33_Witness ==
    /\ Len(conversation_store["t1"]) = 4
    /\ conversation_store["t1"][1] = [type |-> "system"]
    /\ conversation_store["t1"][2].type = "human"
    /\ conversation_store["t1"][3].type = "ai"
    /\ conversation_store["t1"][4].type = "human"
    /\ run[1].pc = "idle"
    /\ ENABLED run_agent(1, "c1", "list vpc", "aws_terraform", "t1")

\* ---------------------------------------------------------------- C34
\* the call of this run that a tool message of the history answers
CallAnswered(history, tool_message) ==
    LET m == CHOOSE m \in SeqToSet(history) :
                 /\ m.type = "ai"
                 /\ \E i \in 1..Len(m.tool_calls) :
                        m.tool_calls[i].id = tool_message.tool_call_id
        i == CHOOSE i \in 1..Len(m.tool_calls) :
                 m.tool_calls[i].id = tool_message.tool_call_id
    IN  m.tool_calls[i]

\* the places of the history where a terraform_plan of a named project,
\* asked for in the run r, returned success
PlannedAt(history, r) ==
    {k \in 1..Len(history) :
        /\ history[k].type = "tool"
        /\ history[k].tool_call_id[1] = r
        /\ history[k].kind = "result"
        /\ history[k].success
        /\ CallAnswered(history, history[k]).name = "terraform_plan"
        /\ CallAnswered(history, history[k]).args.project_name # ""}

\* the project of the most recent successful terraform_plan of the run, ""
\* when there is none
LastPlanned(history, r) ==
    IF PlannedAt(history, r) = {} THEN ""
    ELSE LET k == CHOOSE k \in PlannedAt(history, r) : \A j \in PlannedAt(history, r) : j <= k
         IN  CallAnswered(history, history[k]).args.project_name

\* the arguments the call is to go on with
ExpectedArgs(tool_call, history, r) ==
    LET L == LastPlanned(history, r)
        requested == tool_call.args.project_name
    IN  IF /\ tool_call.name = "terraform_apply"
           /\ requested = "" \/ requested \notin tfplan
           /\ L # ""
           /\ L \in tfplan
        THEN [project_name |-> L]
        ELSE tool_call.args

C34_GateWitness ==
    /\ Len(maker_checker_requests) = 1
    /\ maker_checker_requests[1].tool_name = "terraform_apply"
    /\ maker_checker_requests[1].tool_args.project_name = "p1"
    /\ \E k \in 1..Len(conversation_store["t1"]) :
          /\ conversation_store["t1"][k].type = "ai"
          /\ conversation_store["t1"][k].tool_calls # <<>>
          /\ conversation_store["t1"][k].tool_calls[1].name = "terraform_apply"
          /\ conversation_store["t1"][k].tool_calls[1].args.project_name = "p2"

\* the planned project lost its plan and the apply went on as it was asked
C34_GoneWitness ==
    /\ Len(tool_log) = 3
    /\ tool_log[1].tool_name = "terraform_plan" /\ tool_log[1].tool_args.project_name = "p1"
    /\ tool_log[2].tool_name = "terraform_destroy"
    /\ tool_log[3].tool_name = "terraform_apply" /\ tool_log[3].tool_args.project_name = "p2"
    /\ run[1].last_successful_plan_project = "p1"

\* ---------------------------------------------------------------- C35
\* the places of a history with a tool result that lists missing fields, and
\* those with the notice of a queued call
MissingAt(history) ==
    {k \in 1..Len(history) :
        history[k].type = "tool" /\ "missing_fields" \in DOMAIN history[k]}

QueuedAt(history) ==
    {k \in 1..Len(history) : history[k].type = "tool" /\ history[k].kind = "queued"}

Latest(places) == CHOOSE k \in places : \A j \in places : j <= k

\* the follow-up for a result: one numbered line for each missing field
FollowupFor(tool_message) ==
    CASE tool_message.missing_fields = <<"cluster_name">> ->
             "I need a few details to continue:\n1. Please provide value for 'cluster_name'.\nReply with the values, and I will continue."
      [] tool_message.missing_fields = <<"cluster_name", "subnet_ids">> ->
             "I need a few details to continue:\n1. Please provide value for 'cluster_name'.\n2. Please provide value for 'subnet_ids'.\nReply with the values, and I will continue."

\* the run r delivers its final answer in this step
Delivers(r) == run[r].pc # "finished" /\ run'[r].pc = "finished"

\* the text of the LLM's last message
LlmText(history) ==
    LET ai == {k \in 1..Len(history) : history[k].type = "ai"}
    IN  history[Latest(ai)].content

\* C35: when an executed tool of the run returned a result with missing
\* fields, the final answer of the run is the follow-up built from the most
\* recent such result, not the LLM's text; when no result of the run has
\* missing fields and no call was queued, the final answer is the LLM's text.
C35_FollowupIsFinalAnswer ==
    [][\A r \in Runs :
          Delivers(r)
             => LET history == conversation_store'[run[r].thread_id]
                IN  /\ MissingAt(history) # {}
                         => run'[r].response_text
                                = FollowupFor(history[Latest(MissingAt(history))])
                    /\ (MissingAt(history) = {} /\ QueuedAt(history) = {}
                        /\ LlmText(history) # "")
                         => run'[r].response_text = LlmText(history)]_vars

\* C35 (as the loop has it): the last of the forced texts wins. The final
\* answer is the follow-up of the most recent result with missing fields
\* unless a call was queued after it, and then it is the notice of the queue.
C35_LatestForcedTextWins ==
    [][\A r \in Runs :
          Delivers(r)
             => LET history == conversation_store'[run[r].thread_id]
                    forced == MissingAt(history) \cup QueuedAt(history)
                IN  /\ (forced # {} /\ Latest(forced) \in MissingAt(history))
                         => run'[r].response_text = FollowupFor(history[Latest(forced)])
                    /\ (forced # {} /\ Latest(forced) \in QueuedAt(history))
                         => run'[r].response_text = "queued"
                    /\ (forced = {} /\ LlmText(history) # "")
                         => run'[r].response_text = LlmText(history)]_vars

\* a maker's run: the workflow tool asked for a field, create_ecs_service was
\* queued after it, and the run ended with the notice of the queue
C35_Witness ==
    LET history == conversation_store["t1"]
    IN  /\ run[1].pc = "finished"
        /\ MissingAt(history) # {}
        /\ QueuedAt(history) # {}
        /\ Latest(MissingAt(history)) < Latest(QueuedAt(history))
        /\ run[1].response_text = "queued"

\* a run ended with the follow-up for two missing fields although the LLM
\* had a text of its own
C35_FollowupWitness ==
    LET history == conversation_store["t1"]
    IN  /\ run[1].pc = "finished"
        /\ MissingAt(history) # {}
        /\ history[Latest(MissingAt(history))].missing_fields = <<"cluster_name", "subnet_ids">>
        /\ LlmText(history) = "text"
        /\ run[1].response_text = FollowupFor(history[Latest(MissingAt(history))])

\* ---------------------------------------------------------------- C36
\* the names a caller can have as its profile: the known ones and a stranger
NamedProfiles == Profiles \cup {"ghost"}

\* what GET /api/maker-checker/roles reports is consistent: nobody is both
\* checker and maker, somebody is a checker, and without configured makers
\* the makers are the profiles that are not checkers
RolesConsistent ==
    /\ \A p \in NamedProfiles : ~(_is_checker_profile(p) /\ _is_maker_profile(p))
    /\ _checker_profiles # <<>>
    /\ \E p \in NamedProfiles : _is_checker_profile(p)
    /\ _maker_profiles = <<>>
          => \A p \in NamedProfiles : _is_maker_profile(p) <=> ~_is_checker_profile(p)

\* an update whose checker list names nobody fails and changes nothing
EmptyCheckerUpdateFails ==
    \A i \in RoleInputs :
        (update_maker_checker_roles(i[1], i[2]) /\ SeqToSet(i[1]) \subseteq {""})
           => /\ last_response'.error # ""
              /\ UNCHANGED <<maker_checker_roles, role_file>>

\* C36: after any sequence of role updates no profile is reported both as
\* checker and as maker and the checker set is not empty; an update with an
\* empty checker list fails and leaves the configuration unchanged; when no
\* maker profiles are configured a profile is a maker iff it is not a checker.
C36_RolesDisjoint == []RolesConsistent /\ [][EmptyCheckerUpdateFails]_vars

\* an update that named audit as checker and as maker was stored with audit
\* as checker only
C36_Witness ==
    /\ last_response = Response("roles", "")
    /\ maker_checker_roles = [checker_profiles |-> <<"audit">>, maker_profiles |-> <<"dev">>]
    /\ _is_checker_profile("audit") /\ ~_is_maker_profile("audit")

\* an update whose makers were all checkers left no maker configured, and
\* the other profiles are the makers
C36_NoMakersWitness ==
    /\ last_response = Response("roles", "")
    /\ maker_checker_roles = [checker_profiles |-> <<"dev">>, maker_profiles |-> <<>>]
    /\ _is_maker_profile("audit") /\ _is_maker_profile("ghost")

\* an update without checkers was refused
C36_RefusedWitness == last_response = Response("roles", "checker profile required")

\* ---------------------------------------------------------------- C37
LoginMoves ==
    {<<"queued", "running">>, <<"running", "success">>, <<"running", "failed">>}

Started(id) == id \in 1..Len(aws_login_jobs)

Terminal(id) == Started(id) /\ aws_login_jobs[id].status \in {"success", "failed"}

\* C37: a started login returns at once with its job in status queued; the
\* status of a job then only moves queued -> running -> (success | failed),
\* success and failed being terminal; a status lookup without an id returns
\* the job started last. Here: the moves of the status.
C37_LoginStatusMoves ==
    [][\A id \in 1..MaxLogins :
          (Started(id) /\ aws_login_jobs'[id].status # aws_login_jobs[id].status)
             => <<aws_login_jobs[id].status, aws_login_jobs'[id].status>> \in LoginMoves]_vars

\* C37 (as the thread has it): a job whose mode names no command goes from
\* queued to failed; every other move is one of the three, and success and
\* failed are never left.
C37_LoginStatusMovesOrNoCommand ==
    [][\A id \in 1..MaxLogins :
          (Started(id) /\ aws_login_jobs'[id].status # aws_login_jobs[id].status)
             => \/ <<aws_login_jobs[id].status, aws_login_jobs'[id].status>> \in LoginMoves
                \/ /\ aws_login_jobs[id].mode \notin {"auto", "login", "sso"}
                   /\ aws_login_jobs[id].status = "queued"
                   /\ aws_login_jobs'[id].status = "failed"]_vars

\* C37 (start): the call that starts a login answers with status queued and
\* the id of a new job that is queued, before any command has run
C37_StartsQueued ==
    [][Len(aws_login_jobs') > Len(aws_login_jobs)
          => /\ last_response' = LoginResponse("", Len(aws_login_jobs'), "queued")
             /\ Last(aws_login_jobs').status = "queued"
             /\ aws_login_latest_id' = Len(aws_login_jobs')]_vars

\* C37 (lookup): a status lookup without an id answers with the job started
\* last; login ids grow with the time of the start
C37_LatestLookup ==
    [][(aws_login_status(0) /\ aws_login_jobs # <<>>)
          => /\ last_response'.login_id = Len(aws_login_jobs)
             /\ last_response'.status = Last(aws_login_jobs).status]_vars

\* C37 (progress): every job reaches success or failed when its thread is
\* scheduled and its subprocesses return or time out
C37_LoginTerminates == \A id \in 1..MaxLogins : Started(id) ~> Terminal(id)

\* a job asked for with a mode that names no command failed and never ran
C37_Witness ==
    /\ Started(1)
    /\ aws_login_jobs[1].mode = "device"
    /\ aws_login_jobs[1].status = "failed"
    /\ aws_login_jobs[1].error = "Unknown login error."

\* one job succeeded with its second command, another failed after both, and
\* a lookup without an id answered with the later one
C37_BothEndsWitness ==
    /\ Started(2)
    /\ aws_login_jobs[1].status = "success" /\ aws_login_jobs[1].error # ""
    /\ aws_login_jobs[2].status = "failed" /\ aws_login_jobs[2].mode = "auto"
    /\ last_response = LoginResponse("", 2, "failed")

\* ---------------------------------------------------------------- C38
\* the tool results of a history that answer the call id
ResultsFor(history, id) ==
    {k \in 1..Len(history) : history[k].type = "tool" /\ history[k].tool_call_id = id}

\* the run stands before an LLM invocation that is not its first
BeforeLaterInvocation(r) ==
    run[r].pc = "llm" /\ run[r].iteration > 0 /\ run[r].iteration < max_iterations

\* the calls of a message that repeat an earlier call of the same message
Repeats(message) ==
    {i \in 1..Len(message.tool_calls) :
        \E j \in 1..(i - 1) :
            /\ message.tool_calls[j].name = message.tool_calls[i].name
            /\ message.tool_calls[j].args = message.tool_calls[i].args}

\* C38: before every LLM invocation of a run after the first, the history
\* holds exactly one tool result for each tool call id of the preceding
\* assistant message, whichever branch the call took, and also for the calls
\* dropped by deduplication.
C38_EveryCallAnswered ==
    \A r \in Runs :
        BeforeLaterInvocation(r)
           => LET history == conversation_store[run[r].thread_id]
                  message == LastAi(history)
              IN  \A i \in 1..Len(message.tool_calls) :
                      Cardinality(ResultsFor(history, message.tool_calls[i].id)) = 1

\* C38 (as the loop has it): exactly one result for each call that is not a
\* repetition within its message, and none for a repetition
C38_EveryKeptCallAnswered ==
    \A r \in Runs :
        BeforeLaterInvocation(r)
           => LET history == conversation_store[run[r].thread_id]
                  message == LastAi(history)
              IN  \A i \in 1..Len(message.tool_calls) :
                      Cardinality(ResultsFor(history, message.tool_calls[i].id))
                          = IF i \in Repeats(message) THEN 0 ELSE 1

\* the LLM asked twice for the same call, and the loop stands before the next
\* invocation with a result for the first id only
C38_Witness ==
    LET history == conversation_store["t1"]
    IN  /\ BeforeLaterInvocation(1)
        /\ Len(LastAi(history).tool_calls) = 2
        /\ Repeats(LastAi(history)) = {2}
        /\ ResultsFor(history, <<1, 1, 1>>) # {}
        /\ ResultsFor(history, <<1, 1, 2>>) = {}

\* two different calls of a turn took two different branches and both have
\* their result
C38_BranchesWitness ==
    LET history == conversation_store["t1"]
    IN  /\ BeforeLaterInvocation(1)
        /\ Len(LastAi(history).tool_calls) = 2
        /\ \E k \in ResultsFor(history, <<1, 1, 1>>) : history[k].kind = "queued"
        /\ \E k \in ResultsFor(history, <<1, 1, 2>>) : history[k].kind = "error"

\* ---------------------------------------------------------------- C39
Executing(id) == Found(id) /\ maker_checker_requests[id].status = "executing"

Settled(id) == Found(id) /\ maker_checker_requests[id].status \in {"executed", "failed"}

\* C39: every request that enters status executing eventually reaches
\* executed or failed, whatever the executor's call comes to (success, a
\* failure result, an exception, the backend not available), provided the
\* call returns.
C39_ExecutingSettles == \A id \in RequestIds : Executing(id) ~> Settled(id)

\* a request was executed with success
C39_Witness ==
    /\ Settled(1)
    /\ maker_checker_requests[1].status = "executed"
    /\ maker_checker_requests[1].execution_result = "ok"

\* a request failed because the executor raised, another because the backend
\* is missing
C39_RaisedWitness ==
    /\ Settled(1)
    /\ maker_checker_requests[1].status = "failed"
    /\ maker_checker_requests[1].execution_result = "raise"

C39_NoBackendWitness ==
    /\ Settled(1)
    /\ maker_checker_requests[1].status = "failed"
    /\ maker_checker_requests[1].execution_error = "MCP server not available"

\* a request failed with the failure the executor returned
C39_FailureWitness ==
    /\ Settled(1)
    /\ maker_checker_requests[1].status = "failed"
    /\ maker_checker_requests[1].execution_result = "fail"

\* ---------------------------------------------------------------- C40
Places(events, names) == {k \in 1..Len(events) : events[k] \in names}

TerminalEvents == {"RUN_FINISHED", "RUN_ERROR"}

ToolEvents == {"TOOL_RESULT", "MAKER_CHECKER_REQUEST", "MAKER_CHECKER_STATUS"}

\* the chunks of 60 characters of a final answer
ExpectedChunks(response_text) ==
    IF response_text \in {"text", "No response generated.",
                          "initiated the infrastructure changes"} THEN 1
    ELSE IF response_text = "queued" THEN 2
    ELSE 3

\* the stream begins with RUN_STARTED; a run that has ended has one terminal
\* event, the last of its stream, and a run that has not has none
OneTerminalEvent(r) ==
    LET events == run[r].events
    IN  /\ Places(events, {"RUN_STARTED"}) = {1}
        /\ IF run[r].pc \in {"finished", "failed"}
           THEN Places(events, TerminalEvents) = {Len(events)}
           ELSE Places(events, TerminalEvents) = {}

\* the end of the message comes after its start and before RUN_FINISHED, and
\* a finished run has it
MessageEnds(r) ==
    LET events == run[r].events
    IN  /\ \A k \in Places(events, {"TEXT_MESSAGE_END"}) :
               /\ \E j \in Places(events, {"TEXT_MESSAGE_START"}) : j < k
               /\ \A j \in Places(events, {"RUN_FINISHED"}) : k < j
        /\ \A j \in Places(events, {"RUN_FINISHED"}) :
               \E k \in Places(events, {"TEXT_MESSAGE_END"}) : k < j

\* the events about tools come after the start of the message and before
\* the chunks of the final answer, which are the events just before the end
\* of the message
ToolEventsInside(r) ==
    LET events == run[r].events
        chunks == ExpectedChunks(run[r].response_text)
    IN  /\ \A k \in Places(events, ToolEvents) :
               \E j \in Places(events, {"TEXT_MESSAGE_START"}) : j < k
        /\ run[r].pc = "finished"
              => /\ Len(events) >= chunks + 4
                 /\ \A k \in (Len(events) - 1 - chunks)..(Len(events) - 2) :
                        events[k] = "TEXT_MESSAGE_CONTENT"
                 /\ \A k \in Places(events, ToolEvents) : k < Len(events) - 1 - chunks

\* C40: the event stream of every run starts with RUN_STARTED and ends with
\* exactly one terminal event, RUN_FINISHED or RUN_ERROR, never both;
\* TEXT_MESSAGE_END is always preceded by TEXT_MESSAGE_START and precedes
\* RUN_FINISHED; the events of tool results and of queued approvals appear
\* only between TEXT_MESSAGE_START and the chunks of the final answer.
C40_EventStream ==
    \A r \in Runs :
        run[r].pc # "idle" => OneTerminalEvent(r) /\ MessageEnds(r) /\ ToolEventsInside(r)

\* a run of perplexity had a call queued and a tool executed and ended with
\* the notice of the queue in two chunks
C40_Witness ==
    /\ run[1].pc = "finished"
    /\ run[1].provider = "perplexity"
    /\ Places(run[1].events, {"TOOL_RESULT"}) # {}
    /\ Places(run[1].events, {"MAKER_CHECKER_REQUEST"}) # {}
    /\ run[1].response_text = "queued"
    /\ Count(run[1].events, "TEXT_MESSAGE_CONTENT") = 3

\* a run ended with RUN_ERROR after a tool result, its message never ended
C40_ErrorWitness ==
    /\ run[1].pc = "failed"
    /\ Places(run[1].events, {"TOOL_RESULT"}) # {}
    /\ Places(run[1].events, {"TEXT_MESSAGE_END"}) = {}
    /\ Last(run[1].events) = "RUN_ERROR"

====
